---------------------------- MODULE Spec2Model ----------------------------
(***************************************************************************)
(* School photo gallery: the admin panel's client-side state machines.     *)
(*                                                                         *)
(*   - AuthProvider / ProtectedRoute / AdminLoginPage / handleLogout       *)
(*     (src/App.tsx, src/unnamed/part_000 446-550)                         *)
(*   - AdminDashboardPage.handleDelete (part_000 553-623)                  *)
(*   - AdminAlbumEditorPage: upload queue, object URLs, photo deletion,    *)
(*     cover selection (part_000 676-1007)                                 *)
(*                                                                         *)
(* Every `await` of a handler is a step boundary: one action is the        *)
(* completion of the awaited backend call together with the handler code   *)
(* that runs until the next await.  React state written by a step is       *)
(* rendered (and mount / unmount effects are run) as part of the step.     *)
(* The backend (auth, tables with a cascading foreign key, object storage) *)
(* is the external platform; it is modelled from its contract.             *)
(***************************************************************************)
EXTENDS Integers, Sequences, FiniteSets, TLC

---------------------------------------------------------------------------
(* Bounds of the model *)

\* most items the upload queue holds; a selection never exceeds the room left
MaxQueue == 1
\* most storage keys generated by uploads in one run
MaxUploads == 2
\* most timers of a kind that are still pending when a user action starts or
\* a step shows new toasts: older timers fire first
MaxTimers == 0
\* most sessions the auth backend issues in one run
MaxSessions == 1
\* most auth-state-change events waiting for delivery when a user action starts
MaxEvents == 1
\* fetchAlbumDetails activations running besides the one being started
MaxFetches == 1
\* largest distance of the lightbox index from 0
MaxIndex == 2

---------------------------------------------------------------------------
(* Values *)

NoAlbum == "none"
AlbumIds == {"a1"}
NullUser == "null"
NullSession == [id |-> 0, user |-> NullUser]
NoUrl == <<>>

Min(S) == CHOOSE x \in S : \A y \in S : x <= y
Max(S) == CHOOSE x \in S : \A y \in S : x >= y
Range(s) == {s[i] : i \in DOMAIN s}

\* Array.prototype.filter, the predicate given as the set of indices kept
RECURSIVE FilterIdx(_, _, _)
FilterIdx(s, keep, i) ==
  IF i > Len(s) THEN <<>>
  ELSE (IF i \in keep THEN <<s[i]>> ELSE <<>>) \o FilterIdx(s, keep, i + 1)

\* String.prototype.startsWith on strings given as sequences of characters
StartsWith(s, prefix) ==
  /\ Len(s) >= Len(prefix)
  /\ SubSeq(s, 1, Len(prefix)) = prefix

---------------------------------------------------------------------------
(* Files offered to the file input / drop zone: name, MIME type, size *)

ImagePrefix == <<"i", "m", "a", "g", "e", "/">>
MimePng == ImagePrefix \o <<"p", "n", "g">>
MimeText == <<"t", "e", "x", "t", "/", "p", "l", "a", "i", "n">>
MaxFileSize == 5 * 1024 * 1024

Files ==
  [ limit |-> [name |-> <<"b", " ">>, type |-> MimePng,  size |-> MaxFileSize],
    over  |-> [name |-> <<"c">>,      type |-> MimePng,  size |-> MaxFileSize + 1],
    text  |-> [name |-> <<"d">>,      type |-> MimeText, size |-> 1024] ]
FileIds == DOMAIN Files

\* the FileLists a user can select in one dialog: non-empty, at most n files,
\* no file twice
FileLists(n) ==
  {l \in UNION {[1..k -> FileIds] : k \in 1..n} :
     \A i, j \in DOMAIN l : l[i] = l[j] => i = j}

---------------------------------------------------------------------------
(* URLs and storage paths as sequences of '/'-separated segments *)

Lit(s) == [lit |-> s, uuid |-> 0, name |-> <<>>]
\* `${crypto.randomUUID()}-${file.name.replace(/\s/g, '_')}`
Whitespace == {" ", "\t", "\n"}
ReplaceWhitespace(name) ==
  [i \in 1..Len(name) |-> IF name[i] \in Whitespace THEN "_" ELSE name[i]]
FileName(uuid, file) ==
  <<[lit |-> "", uuid |-> uuid, name |-> ReplaceWhitespace(Files[file].name)]>>
\* storage.from('gallery').getPublicUrl(path).data.publicUrl
PublicUrlBase == <<Lit("https:"), Lit(""), Lit("project.host"), Lit("storage"),
                   Lit("v1"), Lit("object"), Lit("public")>>
getPublicUrl(path) == PublicUrlBase \o <<Lit("gallery")>> \o path
\* url.split('/gallery/').pop()
SplitGalleryPop(url) ==
  LET at == {i \in 2..(Len(url) - 1) : url[i] = Lit("gallery")}
  IN IF at = {} THEN url ELSE SubSeq(url, Max(at) + 1, Len(url))

---------------------------------------------------------------------------
(* State *)

VARIABLES
  \* the backend platform
  beSession,        \* the auth client's current session
  sessionsIssued,   \* number of sessions issued so far
  dbAlbums,         \* table albums: id -> [cover (cover_image_url), title]
  dbPhotos,         \* table photos: set of [id, album_id, image_url]
  storage,          \* bucket 'gallery': set of object paths
  uuids,            \* number of crypto.randomUUID() storage keys drawn so far
  \* App.tsx
  ctx,              \* AuthContext value: [session, user, loading]
  authEvents,       \* auth-state-change events not yet delivered to the listener
  getSessionPending,\* the initial getSession() promise has not resolved
  route,            \* HashRouter location: [path, albumId]
  page,             \* the page element <Routes> currently renders
  toasts,           \* ToastProvider: [id, type]
  toastTimers,      \* pending 5000 ms dismissal timers, in firing order
  \* AdminLoginPage, AdminLayout
  loginLoading, loginProc, logoutProc,
  \* AdminDashboardPage
  dash, dashFetch, delProc,
  \* AdminAlbumEditorPage
  ed,               \* component state: [album, photos, captions, loading, saving, files]
  edInst,           \* identity of the mounted component instance
  liveUrls,         \* object URLs created and not yet revoked
  clearTimers,      \* pending 3000 ms queue-clearing timers (instance of each)
  edFetch, up, delPhoto, setCover,
  save,             \* the running handleAlbumSave
  \* AlbumDetailPage (public)
  gal,              \* component state: [album, photos, loading, lightboxOpen,
                    \*   selectedPhotoIndex, currentIndex (PhotoLightbox)]
  galFetch,         \* the running fetchAlbumDetails activations: [albumId, pc]
  \* results of the SDK calls consumed by the handler code of the last step
  sdkCalls

backendVars == <<beSession, sessionsIssued, dbAlbums, dbPhotos, storage, uuids>>
authVars == <<ctx, authEvents, getSessionPending>>
toastVars == <<toasts, toastTimers>>
loginVars == <<loginProc, logoutProc>>
dashVars == <<delProc>>
edProcVars == <<clearTimers, up, delPhoto, setCover, save>>
viewVars == <<route, page, ctx, ed, edInst, liveUrls, edFetch, dash, dashFetch, loginLoading,
              gal, galFetch>>
vars == <<beSession, sessionsIssued, dbAlbums, dbPhotos, storage, uuids, ctx,
          authEvents, getSessionPending, route, page, toasts, toastTimers,
          loginLoading, loginProc, logoutProc, dash, dashFetch, delProc, ed,
          edInst, liveUrls, clearTimers, edFetch, up, delPhoto, setCover, save,
          sdkCalls, gal, galFetch>>

---------------------------------------------------------------------------
(* Routing: <Routes> of App and ProtectedRoute *)

R(path) == [path |-> path, albumId |-> NoAlbum]
RAlbum(path, a) == [path |-> path, albumId |-> a]
ProtectedPaths == {"/admin", "/admin/album/new", "/admin/album/:albumId"}
AdminPages == {"AdminDashboardPage", "AdminAlbumEditorPage"}
UserOf(session) == IF session = NullSession THEN NullUser ELSE session.user

ProtectedRouteLoadingFirst(session, loading) ==
  IF session # NullSession \/ loading THEN "Outlet" ELSE "NavigateToLogin"
ProtectedRoute(session, loading) ==
  IF loading THEN "Spinner"
  ELSE IF session # NullSession THEN "Outlet" ELSE "NavigateToLogin"

Routes(r, c) ==
  CASE r.path = "/" -> "PublicHomePage"
    [] r.path = "/gallery/:albumId" -> "AlbumDetailPage"
    [] r.path = "/admin/login" -> "AdminLoginPage"
    [] r.path \in ProtectedPaths ->
         LET outer == ProtectedRoute(c.session, c.loading)
         IN IF outer # "Outlet" THEN outer
            ELSE IF r.path = "/admin" THEN "AdminDashboardPage"
            ELSE "AdminAlbumEditorPage"
    [] OTHER -> "NavigateToHome"

---------------------------------------------------------------------------
(* ToastProvider.addToast *)

Toasts == [list |-> toasts, timers |-> toastTimers]
NewToastId(T) == Min((1..(Len(T.timers) + 1)) \ Range(T.timers))
\* one addToast call at Date.now() = id
addToastFirst(T, type, id) ==
  [list |-> <<[id |-> id, type |-> type]>> \o T.list,
   timers |-> Append(T.timers, id)]
addToast(T, type, id) ==
  [list |-> Append(T.list, [id |-> id, type |-> type]),
   timers |-> Append(T.timers, id)]
\* the addToast calls of one step; sameMs: Date.now() does not advance between them
RECURSIVE AddToastsFrom(_, _, _, _)
AddToastsFrom(T, types, sameMs, i) ==
  IF i > Len(types) THEN T
  ELSE LET id == IF i > 1 /\ sameMs THEN T.timers[Len(T.timers)] ELSE NewToastId(T)
       IN AddToastsFrom(addToast(T, types[i], id), types, sameMs, i + 1)
AddToasts(types, sameMs) ==
  LET T == AddToastsFrom(Toasts, types, sameMs, 1)
  IN /\ types # <<>> => Len(toastTimers) <= MaxTimers
     /\ toasts' = T.list
     /\ toastTimers' = T.timers

\* a user starts an action only while few toasts are on screen
UserCanAct == Len(toastTimers) <= MaxTimers

\* the setTimeout callback of the oldest pending toast
ToastTimeout ==
  /\ toastTimers # <<>>
  /\ LET id == Head(toastTimers)
     IN toasts' = FilterIdx(toasts, {i \in DOMAIN toasts : toasts[i].id # id}, 1)
  /\ toastTimers' = Tail(toastTimers)
  /\ sdkCalls' = <<>>
  /\ UNCHANGED <<backendVars, authVars, route, page, gal, galFetch,
                 loginLoading, loginVars,
                 dash, dashFetch, dashVars, ed, edInst, liveUrls, edFetch, edProcVars>>

---------------------------------------------------------------------------
(* Component state and handler activations *)

\* useState initial values of AdminAlbumEditorPage
EdInit(isNew) ==
  [album |-> [id |-> NoAlbum, cover |-> NoUrl, title |-> ""], photos |-> <<>>,
   captions |-> {}, loading |-> ~isNew, saving |-> FALSE, files |-> <<>>]
EdNone == EdInit(TRUE)
DashInit == [albums |-> {}, loading |-> TRUE]

UpIdle ==
  [pc |-> "idle", inst |-> 0, albumId |-> NoAlbum, files |-> <<>>, idx |-> 0,
   key |-> <<>>, successCount |-> 0, errorCount |-> 0]
FetchIdle == [pc |-> "idle", inst |-> 0, albumId |-> NoAlbum]
NoPhoto == [id |-> 0, album_id |-> NoAlbum, image_url |-> NoUrl]
DelPhotoIdle ==
  [pc |-> "idle", inst |-> 0, photo |-> NoPhoto, albumId |-> NoAlbum,
   album |-> EdNone.album, path |-> <<>>]
SetCoverIdle == [pc |-> "idle", inst |-> 0, albumId |-> NoAlbum, url |-> NoUrl]
DelIdle == [pc |-> "idle", albumId |-> NoAlbum, filePaths |-> <<>>]
LoginIdle == [pc |-> "idle", ok |-> FALSE]
SaveIdle ==
  [pc |-> "idle", inst |-> 0, albumId |-> NoAlbum, title |-> "", captions |-> {}]

\* useState initial values of AlbumDetailPage and PhotoLightbox
GalInit ==
  [album |-> [id |-> NoAlbum, cover |-> NoUrl, title |-> ""], photos |-> <<>>,
   loading |-> TRUE, lightboxOpen |-> FALSE, selectedPhotoIndex |-> 0,
   currentIndex |-> 0]
\* {lightboxOpen && <PhotoLightbox .../>} is reached by the render
LightboxMounted(g) == ~g.loading /\ g.album.id # NoAlbum /\ g.lightboxOpen
\* the render after AlbumDetailPage's state changed from prev to next: a
\* PhotoLightbox that is mounted by it starts at useState(startIndex)
RenderGallery(prev, next) ==
  [next EXCEPT !.currentIndex =
     IF ~LightboxMounted(next) THEN 0
     ELSE IF LightboxMounted(prev) THEN next.currentIndex
     ELSE next.selectedPhotoIndex]

\* a call on the photos row id (-1: a call not addressed by a photo id)
CallOn(who, op, err, id) == [who |-> who, op |-> op, err |-> err, id |-> id]
Call(who, op, err) == CallOn(who, op, err, -1)

PreviewUrls(files) == {files[i].previewUrl : i \in DOMAIN files}
\* the cleanup of the [filesToUpload] effect, run for the array of the previous
\* render: filesToUpload.forEach(f => URL.revokeObjectURL(f.previewUrl))
CleanupKeepsUrls(live, files) == live
CleanupObjectUrls(live, files) == live \ PreviewUrls(files)
\* component instances still referenced by running handlers or timers
UsedInsts ==
  {up.inst, edFetch.inst, delPhoto.inst, setCover.inst, save.inst}
    \cup Range(clearTimers)
NewInst == Min((1..(Cardinality(UsedInsts) + 1)) \ UsedInsts)
\* a handler's setState calls reach the component it was started from
Attached(inst) == page = "AdminAlbumEditorPage" /\ inst = edInst

(***************************************************************************)
(* Commit: the render after a step.  r2, c2: location and auth context     *)
(* after the step; e1, live1, ef1, da1, df1, ll1: the editor state, live   *)
(* object URLs, editor fetch, dashboard state, dashboard fetch and login   *)
(* form state as the step's handler code left them; filesSet: the step     *)
(* called setFilesToUpload.  Mounting and unmounting run the components'   *)
(* effects: the editor's object-URL cleanup (part_000 727-731), its        *)
(* fetchAlbumData effect (722-724), the dashboard's fetch effect (590-592),*)
(* the public album page's fetchAlbumDetails effect (types.ts 174-201).    *)
(***************************************************************************)
Commit(r2, c2, e1, filesSet, live1, ef1, da1, df1, ll1) ==
  LET p2 == Routes(r2, c2)
      wasEd == page = "AdminAlbumEditorPage"
      isEd == p2 = "AdminAlbumEditorPage"
      inst2 == IF isEd /\ ~wasEd THEN NewInst ELSE edInst
      wasDash == page = "AdminDashboardPage"
      isDash == p2 = "AdminDashboardPage"
      wasGal == page = "AlbumDetailPage"
      isGal == p2 = "AlbumDetailPage"
      fetchStarted == isGal /\ (~wasGal \/ r2.albumId # route.albumId)
  IN /\ route' = r2
     /\ ctx' = c2
     /\ page' = p2
     /\ edInst' = inst2
     /\ ed' = IF ~isEd THEN EdNone
              ELSE IF ~wasEd THEN EdInit(r2.albumId = NoAlbum)
              ELSE IF r2.albumId # NoAlbum /\ r2.albumId # route.albumId
                   THEN [e1 EXCEPT !.loading = TRUE]
              ELSE e1
     /\ liveUrls' = IF wasEd /\ (~isEd \/ filesSet)
                    THEN CleanupObjectUrls(live1, ed.files)
                    ELSE live1
     /\ edFetch' = IF isEd /\ r2.albumId # NoAlbum
                      /\ (~wasEd \/ r2.albumId # route.albumId)
                   THEN [pc |-> "album", inst |-> inst2, albumId |-> r2.albumId]
                   ELSE ef1
     /\ dash' = IF ~isDash THEN DashInit
                ELSE IF ~wasDash THEN DashInit
                ELSE da1
     /\ dashFetch' = IF isDash /\ ~wasDash THEN "pending"
                     ELSE IF wasDash /\ ~isDash /\ df1 = "pending" THEN "detached"
                     ELSE df1
     /\ loginLoading' = IF p2 = "AdminLoginPage" /\ page = "AdminLoginPage"
                        THEN ll1 ELSE FALSE
     /\ fetchStarted => Len(galFetch) <= MaxFetches
     /\ gal' = IF ~isGal \/ ~wasGal THEN GalInit
               ELSE IF fetchStarted THEN RenderGallery(gal, [gal EXCEPT !.loading = TRUE])
               ELSE gal
     /\ galFetch' = IF ~isGal THEN <<>>
                    ELSE IF fetchStarted
                    THEN Append(IF wasGal THEN galFetch ELSE <<>>,
                                [albumId |-> r2.albumId, pc |-> "album"])
                    ELSE galFetch

\* a step that changes only the location and / or the auth context
Navigate(r2, c2) ==
  Commit(r2, c2, ed, FALSE, liveUrls, edFetch, dash, dashFetch, loginLoading)

\* effects already scheduled by the last render run before the next user event
EffectPending ==
  \/ page \in {"NavigateToLogin", "NavigateToHome"}
  \/ page = "AdminLoginPage" /\ ctx.session # NullSession

---------------------------------------------------------------------------
(* AuthProvider (App.tsx 20-46) *)

\* setSession(session); setUser(session?.user ?? null); setLoading(false)
SetSessionStillLoading(session) ==
  [session |-> session, user |-> UserOf(session), loading |-> TRUE]
SetSession(session) ==
  [session |-> session, user |-> UserOf(session), loading |-> FALSE]

\* supabase.auth.getSession().then(...)
GetSessionResolves ==
  /\ getSessionPending
  /\ getSessionPending' = FALSE
  /\ Navigate(route, SetSession(beSession))
  /\ sdkCalls' = <<>>
  /\ UNCHANGED <<backendVars, authEvents, toastVars, loginVars, dashVars, edProcVars>>

\* the onAuthStateChange callback
OnAuthStateChange ==
  /\ authEvents # <<>>
  /\ authEvents' = Tail(authEvents)
  /\ Navigate(route, SetSession(Head(authEvents)))
  /\ sdkCalls' = <<>>
  /\ UNCHANGED <<backendVars, getSessionPending, toastVars, loginVars, dashVars,
                 edProcVars>>

---------------------------------------------------------------------------
(* Navigation *)

\* the user follows a link or edits the address bar
Visit(r) ==
  /\ ~EffectPending
  /\ UserCanAct
  /\ r # route
  /\ Navigate(r, ctx)
  /\ sdkCalls' = <<>>
  /\ UNCHANGED <<backendVars, authEvents, getSessionPending, toastVars, loginVars,
                 dashVars, edProcVars>>

\* <Navigate to="/admin/login" /> of ProtectedRoute
ProtectedRedirect ==
  /\ page = "NavigateToLogin"
  /\ Navigate(R("/admin/login"), ctx)
  /\ sdkCalls' = <<>>
  /\ UNCHANGED <<backendVars, authEvents, getSessionPending, toastVars, loginVars,
                 dashVars, edProcVars>>

\* <Navigate to="/" /> of the catch-all route
HomeRedirect ==
  /\ page = "NavigateToHome"
  /\ Navigate(R("/"), ctx)
  /\ sdkCalls' = <<>>
  /\ UNCHANGED <<backendVars, authEvents, getSessionPending, toastVars, loginVars,
                 dashVars, edProcVars>>

\* AdminLoginPage: useEffect(() => { if (session) navigate('/admin') })
LoginRedirectHome ==
  /\ page = "AdminLoginPage"
  /\ ctx.session # NullSession
  /\ Navigate(R("/"), ctx)
  /\ sdkCalls' = <<>>
  /\ UNCHANGED <<backendVars, authEvents, getSessionPending, toastVars, loginVars,
                 dashVars, edProcVars>>
LoginRedirect ==
  /\ page = "AdminLoginPage"
  /\ ctx.session # NullSession
  /\ Navigate(R("/admin"), ctx)
  /\ sdkCalls' = <<>>
  /\ UNCHANGED <<backendVars, authEvents, getSessionPending, toastVars, loginVars,
                 dashVars, edProcVars>>

---------------------------------------------------------------------------
(* AdminLoginPage.handleLogin (part_000 517-528) *)

handleLogin ==
  /\ page = "AdminLoginPage"
  /\ ~EffectPending
  /\ UserCanAct
  /\ ~loginLoading
  /\ loginProc.pc = "idle"
  /\ sessionsIssued < MaxSessions
  /\ Len(authEvents) < MaxEvents
  /\ loginLoading' = TRUE
  /\ loginProc' = [pc |-> "signIn", ok |-> FALSE]
  /\ sdkCalls' = <<>>
  /\ UNCHANGED <<backendVars, authVars, route, page, gal, galFetch,
                 toastVars, logoutProc, dash,
                 dashFetch, dashVars, ed, edInst, liveUrls, edFetch, edProcVars>>

\* supabase.auth.signInWithPassword at the backend: the session is created and
\* the SIGNED_IN event is queued for the listener
SignInWithPassword(ok) ==
  /\ loginProc.pc = "signIn"
  /\ loginProc' = [pc |-> "returned", ok |-> ok]
  /\ IF ok
     THEN LET s == [id |-> sessionsIssued + 1, user |-> "admin"]
          IN /\ beSession' = s
             /\ sessionsIssued' = sessionsIssued + 1
             /\ authEvents' = Append(authEvents, s)
     ELSE UNCHANGED <<beSession, sessionsIssued, authEvents>>
  /\ sdkCalls' = <<>>
  /\ UNCHANGED <<dbAlbums, dbPhotos, storage, uuids, ctx, getSessionPending, route,
                 page, gal, galFetch,
                 toastVars, loginLoading, logoutProc, dash, dashFetch,
                 dashVars, ed, edInst, liveUrls, edFetch, edProcVars>>

\* handleLogin after the await
handleLoginReturn(sameMs) ==
  /\ loginProc.pc = "returned"
  /\ loginProc' = LoginIdle
  /\ sdkCalls' = <<Call("handleLogin", "auth.signInWithPassword", ~loginProc.ok)>>
  /\ IF loginProc.ok
     THEN /\ AddToasts(<<"success">>, sameMs)
          /\ Commit(R("/admin"), ctx, ed, FALSE, liveUrls, edFetch, dash, dashFetch,
                    FALSE)
     ELSE /\ AddToasts(<<"error">>, sameMs)
          /\ Commit(route, ctx, ed, FALSE, liveUrls, edFetch, dash, dashFetch, FALSE)
  /\ UNCHANGED <<backendVars, authEvents, getSessionPending, logoutProc, dashVars,
                 edProcVars>>

---------------------------------------------------------------------------
(* AdminLayout.handleLogout (part_000 468-476) *)

handleLogout ==
  /\ page \in AdminPages
  /\ ~EffectPending
  /\ UserCanAct
  /\ logoutProc.pc = "idle"
  /\ Len(authEvents) < MaxEvents
  /\ logoutProc' = [pc |-> "signOut", ok |-> FALSE]
  /\ sdkCalls' = <<>>
  /\ UNCHANGED <<backendVars, authVars, route, page, gal, galFetch,
                 toastVars, loginLoading,
                 loginProc, dash, dashFetch, dashVars, ed, edInst, liveUrls, edFetch,
                 edProcVars>>

\* supabase.auth.signOut at the backend: the session is removed and the
\* SIGNED_OUT event is queued for the listener
SignOut(ok) ==
  /\ logoutProc.pc = "signOut"
  /\ logoutProc' = [pc |-> "returned", ok |-> ok]
  /\ IF ok
     THEN /\ beSession' = NullSession
          /\ authEvents' = Append(authEvents, NullSession)
     ELSE UNCHANGED <<beSession, authEvents>>
  /\ sdkCalls' = <<>>
  /\ UNCHANGED <<sessionsIssued, dbAlbums, dbPhotos, storage, uuids, ctx,
                 getSessionPending, route, page, gal, galFetch,
                 toastVars, loginLoading, loginProc,
                 dash, dashFetch, dashVars, ed, edInst, liveUrls, edFetch, edProcVars>>

\* handleLogout after the await
handleLogoutReturn(sameMs) ==
  /\ logoutProc.pc = "returned"
  /\ logoutProc' = LoginIdle
  /\ sdkCalls' = <<Call("handleLogout", "auth.signOut", ~logoutProc.ok)>>
  /\ IF logoutProc.ok
     THEN /\ AddToasts(<<"success">>, sameMs)
          /\ Navigate(R("/admin/login"), ctx)
     ELSE /\ AddToasts(<<"error">>, sameMs)
          /\ Navigate(route, ctx)
  /\ UNCHANGED <<backendVars, authEvents, getSessionPending, loginProc, dashVars,
                 edProcVars>>

---------------------------------------------------------------------------
(* Backend tables (platform contract: photos.album_id references albums     *)
(* with ON DELETE CASCADE)                                                  *)

PhotosOf(a) == {p \in dbPhotos : p.album_id = a}
RECURSIVE SortById(_)
\* rows in creation order
SortById(rows) ==
  IF rows = {} THEN <<>>
  ELSE LET first == CHOOSE p \in rows : \A q \in rows : p.id <= q.id
       IN <<first>> \o SortById(rows \ {first})
\* delete from albums where id = a
DeleteAlbumRow(a) == [b \in DOMAIN dbAlbums \ {a} |-> dbAlbums[b]]
CascadePhotos(a) == dbPhotos \ PhotosOf(a)
\* update albums set cover_image_url = url where id = a
UpdateCover(a, url) ==
  [b \in DOMAIN dbAlbums |->
     IF b = a THEN [dbAlbums[b] EXCEPT !.cover = url] ELSE dbAlbums[b]]

---------------------------------------------------------------------------
(* AdminDashboardPage (part_000 554-623) *)

\* fetchAlbumsAndStats after Promise.all
fetchAlbumsAndStats(albumsError, photoError, sameMs) ==
  /\ dashFetch \in {"pending", "detached"}
  /\ AddToasts((IF albumsError THEN <<"error">> ELSE <<>>)
                 \o (IF photoError THEN <<"error">> ELSE <<>>), sameMs)
  /\ dashFetch' = "idle"
  /\ dash' = IF dashFetch = "pending"
             THEN [albums |-> IF albumsError THEN dash.albums ELSE DOMAIN dbAlbums,
                   loading |-> FALSE]
             ELSE dash
  /\ sdkCalls' = <<Call("fetchAlbumsAndStats", "rpc.get_albums_with_photo_count",
                        albumsError),
                   Call("fetchAlbumsAndStats", "photos.select", photoError)>>
  /\ UNCHANGED <<backendVars, authVars, route, page, gal, galFetch,
                 loginLoading, loginVars,
                 dashVars, ed, edInst, liveUrls, edFetch, edProcVars>>

\* handleDelete up to its first await (the user confirms the dialog)
handleDelete(albumId) ==
  /\ page = "AdminDashboardPage"
  /\ ~EffectPending
  /\ UserCanAct
  /\ ~dash.loading
  /\ albumId \in dash.albums
  /\ delProc.pc = "idle"
  /\ delProc' = [pc |-> "select", albumId |-> albumId, filePaths |-> <<>>]
  /\ sdkCalls' = <<>>
  /\ UNCHANGED <<backendVars, authVars, route, page, gal, galFetch,
                 toastVars, loginLoading,
                 loginVars, dash, dashFetch, ed, edInst, liveUrls, edFetch,
                 edProcVars>>

\* photos.map(p => p.image_url.split('/gallery/').pop()).filter(Boolean)
FilePathsOf(photos) ==
  LET paths == [i \in 1..Len(photos) |-> SplitGalleryPop(photos[i].image_url)]
  IN FilterIdx(paths, {i \in 1..Len(paths) : paths[i] # <<>>}, 1)

\* after: select image_url from photos where album_id = albumId
handleDeleteSelected(photosError, sameMs) ==
  /\ delProc.pc = "select"
  /\ sdkCalls' = <<Call("handleDelete", "photos.select", photosError)>>
  /\ IF photosError
     THEN /\ AddToasts(<<"error">>, sameMs)
          /\ delProc' = DelIdle
     ELSE LET filePaths == FilePathsOf(SortById(PhotosOf(delProc.albumId)))
          IN /\ UNCHANGED toastVars
             /\ delProc' = [delProc EXCEPT
                  !.pc = IF filePaths # <<>> THEN "remove" ELSE "delete",
                  !.filePaths = filePaths]
  /\ UNCHANGED <<backendVars, authVars, route, page, gal, galFetch,
                 loginLoading, loginVars, dash,
                 dashFetch, ed, edInst, liveUrls, edFetch, edProcVars>>

\* after: storage.from('gallery').remove(filePaths)
handleDeleteRemoved(storageError, sameMs) ==
  /\ delProc.pc = "remove"
  /\ sdkCalls' = <<Call("handleDelete", "storage.remove", storageError)>>
  /\ IF storageError
     THEN /\ AddToasts(<<"error">>, sameMs)
          /\ UNCHANGED storage
     ELSE /\ UNCHANGED toastVars
          /\ storage' = storage \ Range(delProc.filePaths)
  /\ delProc' = [delProc EXCEPT !.pc = "delete"]
  /\ UNCHANGED <<beSession, sessionsIssued, dbAlbums, dbPhotos, uuids, authVars,
                 route, page, gal, galFetch,
                 loginLoading, loginVars, dash, dashFetch, ed, edInst,
                 liveUrls, edFetch, edProcVars>>

\* supabase.from('albums').delete().eq('id', albumId): the one call that
\* removes rows
DeleteCallsPerPhoto(dbError) ==
  <<Call("handleDelete", "photos.delete", FALSE),
    Call("handleDelete", "albums.delete", dbError)>>
DeleteCalls(dbError) == <<Call("handleDelete", "albums.delete", dbError)>>

\* after: delete from albums where id = albumId
handleDeleteDone(dbError, sameMs) ==
  /\ delProc.pc = "delete"
  /\ sdkCalls' = DeleteCalls(dbError)
  /\ delProc' = DelIdle
  /\ IF dbError
     THEN /\ AddToasts(<<"error">>, sameMs)
          /\ UNCHANGED <<dbAlbums, dbPhotos, dash, dashFetch>>
     ELSE /\ AddToasts(<<"success">>, sameMs)
          /\ dbAlbums' = DeleteAlbumRow(delProc.albumId)
          /\ dbPhotos' = CascadePhotos(delProc.albumId)
          /\ dashFetch' = IF page = "AdminDashboardPage" THEN "pending" ELSE "detached"
          /\ dash' = IF page = "AdminDashboardPage"
                     THEN [dash EXCEPT !.loading = TRUE] ELSE dash
  /\ UNCHANGED <<beSession, sessionsIssued, storage, uuids, authVars, route, page, gal, galFetch,
                 loginLoading, loginVars, ed, edInst, liveUrls, edFetch, edProcVars>>

---------------------------------------------------------------------------
(* AdminAlbumEditorPage.fetchAlbumData (part_000 692-720) *)

\* a call of fetchAlbumData from a handler of instance inst, for its albumId
CallFetchAlbumData(inst, albumId) ==
  IF albumId = NoAlbum THEN edFetch
  ELSE [pc |-> "album", inst |-> inst, albumId |-> albumId]
LoadingAfterFetchCall(e, inst, albumId) ==
  IF albumId # NoAlbum /\ Attached(inst) THEN [e EXCEPT !.loading = TRUE] ELSE e

\* after: select * from albums where id = albumId (single)
fetchAlbumDataAlbum(albumError, sameMs) ==
  /\ edFetch.pc = "album"
  /\ edFetch.albumId \notin DOMAIN dbAlbums => albumError
  /\ sdkCalls' = <<Call("fetchAlbumData", "albums.select", albumError)>>
  /\ IF albumError
     THEN /\ AddToasts(<<"error">>, sameMs)
          /\ Commit(R("/admin"), ctx, ed, FALSE, liveUrls, FetchIdle, dash,
                    dashFetch, loginLoading)
     ELSE /\ UNCHANGED toastVars
          /\ Commit(route, ctx,
                    IF Attached(edFetch.inst)
                    THEN [ed EXCEPT !.album = [id |-> edFetch.albumId,
                                               cover |-> dbAlbums[edFetch.albumId].cover,
                                               title |-> dbAlbums[edFetch.albumId].title]]
                    ELSE ed,
                    FALSE, liveUrls, [edFetch EXCEPT !.pc = "photos"], dash,
                    dashFetch, loginLoading)
  /\ UNCHANGED <<backendVars, authEvents, getSessionPending, loginVars, dashVars,
                 edProcVars>>

\* after: select * from photos where album_id = albumId order by created_at
fetchAlbumDataPhotos(photosError, sameMs) ==
  /\ edFetch.pc = "photos"
  /\ sdkCalls' = <<Call("fetchAlbumData", "photos.select", photosError)>>
  /\ AddToasts(IF photosError THEN <<"error">> ELSE <<>>, sameMs)
  /\ edFetch' = FetchIdle
  /\ ed' = IF Attached(edFetch.inst)
           THEN [ed EXCEPT !.photos = IF photosError THEN <<>>
                                      ELSE SortById(PhotosOf(edFetch.albumId)),
                           !.captions = IF photosError THEN @
                                        ELSE {q.id : q \in PhotosOf(edFetch.albumId)},
                           !.loading = FALSE]
           ELSE ed
  /\ UNCHANGED <<backendVars, authVars, route, page, gal, galFetch,
                 loginLoading, loginVars, dash,
                 dashFetch, dashVars, edInst, liveUrls, edProcVars>>

---------------------------------------------------------------------------
(* AdminAlbumEditorPage: the upload queue (part_000 766-847, 901, 933-976) *)

\* the editor shows its form (not the spinner) to a user who can act
EditorReady ==
  /\ page = "AdminAlbumEditorPage"
  /\ ~EffectPending
  /\ UserCanAct
  /\ ~ed.loading
\* {!isNew ? ...}: the drop zone, the queue and the stored photos are rendered
PhotoSectionShown == EditorReady /\ route.albumId # NoAlbum

\* the two checks of handleFileSelect's map callback
AcceptedNoSizeLimit(file) == StartsWith(Files[file].type, ImagePrefix)
Accepted(file) ==
  /\ StartsWith(Files[file].type, ImagePrefix)
  /\ ~(Files[file].size > MaxFileSize)

\* ids (crypto.randomUUID) and object URLs (URL.createObjectURL) in use
UsedItemIds ==
  {ed.files[i].id : i \in DOMAIN ed.files} \cup {up.files[i].id : i \in DOMAIN up.files}
    \cup PreviewUrls(ed.files) \cup liveUrls
RECURSIVE NewFilesFrom(_, _, _)
\* the map(...).filter(f => f !== null) of handleFileSelect
NewFilesFrom(selectedFiles, i, used) ==
  IF i > Len(selectedFiles) THEN <<>>
  ELSE IF ~Accepted(selectedFiles[i]) THEN NewFilesFrom(selectedFiles, i + 1, used)
  ELSE LET id == Min((1..(Cardinality(used) + 1)) \ used)
       IN <<[id |-> id, file |-> selectedFiles[i], previewUrl |-> id,
             status |-> "queued"]>>
            \o NewFilesFrom(selectedFiles, i + 1, used \cup {id})
RejectionToasts(selectedFiles) ==
  [i \in 1..Cardinality({j \in DOMAIN selectedFiles : ~Accepted(selectedFiles[j])})
     |-> "error"]

handleFileSelect(selectedFiles, sameMs) ==
  /\ PhotoSectionShown
  /\ LET newFiles == NewFilesFrom(selectedFiles, 1, UsedItemIds)
     IN /\ Len(ed.files) + Len(newFiles) <= MaxQueue
        /\ AddToasts(RejectionToasts(selectedFiles), sameMs)
        /\ Commit(route, ctx, [ed EXCEPT !.files = ed.files \o newFiles], TRUE,
                  liveUrls \cup PreviewUrls(newFiles), edFetch, dash, dashFetch,
                  loginLoading)
  /\ sdkCalls' = <<>>
  /\ UNCHANGED <<backendVars, authEvents, getSessionPending, loginVars, dashVars,
                 edProcVars>>

\* the functional update of removeFileFromQueue
RemoveFromQueueKeeps(prev, live, id) == [files |-> prev, live |-> live]
RemoveFromQueue(prev, live, id) ==
  [files |-> FilterIdx(prev, {i \in DOMAIN prev : prev[i].id # id}, 1),
   live |-> live \ {prev[i].previewUrl : i \in {j \in DOMAIN prev : prev[j].id = id}}]

removeFileFromQueue(id) ==
  /\ PhotoSectionShown
  /\ \E i \in DOMAIN ed.files : ed.files[i].id = id /\ ed.files[i].status # "uploading"
  /\ LET after == RemoveFromQueue(ed.files, liveUrls, id)
     IN Commit(route, ctx, [ed EXCEPT !.files = after.files], TRUE, after.live,
               edFetch, dash, dashFetch, loginLoading)
  /\ sdkCalls' = <<>>
  /\ UNCHANGED <<backendVars, authEvents, getSessionPending, toastVars, loginVars,
                 dashVars, edProcVars>>

isUploading == \E i \in DOMAIN ed.files : ed.files[i].status = "uploading"
QueuedOrError(files) == {i \in DOMAIN files : files[i].status \in {"queued", "error"}}
Queued(files) == {i \in DOMAIN files : files[i].status = "queued"}

\* prev.map(f => f.id === id ? {...f, status} : f)
SetStatusAll(prev, id, status) == [i \in DOMAIN prev |-> [prev[i] EXCEPT !.status = status]]
SetStatusKeeps(prev, id, status) == prev
SetStatus(prev, id, status) ==
  [i \in DOMAIN prev |-> IF prev[i].id = id THEN [prev[i] EXCEPT !.status = status]
                         ELSE prev[i]]
\* prev.map(f => f.status === 'queued' ? {...f, status: 'uploading'} : f)
MarkUploadingNone(prev) == prev
MarkUploading(prev) ==
  [i \in DOMAIN prev |-> IF prev[i].status = "queued"
                         THEN [prev[i] EXCEPT !.status = "uploading"] ELSE prev[i]]
\* filesToUpload.filter(f => f.status === 'queued')
FilesToProcess(files) == FilterIdx(files, Queued(files), 1)

\* handleUploadAll up to its first await (the Upload button is enabled)
handleUploadAll(sameMs) ==
  /\ PhotoSectionShown
  /\ ed.files # <<>>
  /\ ~isUploading
  /\ Queued(ed.files) # {}
  /\ up.pc = "idle"
  /\ uuids + Cardinality(Queued(ed.files)) <= MaxUploads
  /\ Len(clearTimers) <= MaxTimers
  /\ sdkCalls' = <<>>
  /\ LET filesToProcess == FilesToProcess(ed.files)
     IN IF route.albumId = NoAlbum
        THEN UNCHANGED <<toastVars, viewVars, up, uuids>>
        ELSE IF filesToProcess = <<>>
        THEN /\ AddToasts(<<"info">>, sameMs)
             /\ UNCHANGED <<viewVars, up, uuids>>
        ELSE /\ UNCHANGED toastVars
             /\ Commit(route, ctx, [ed EXCEPT !.files = MarkUploading(ed.files)],
                       TRUE, liveUrls, edFetch, dash, dashFetch, loginLoading)
             /\ uuids' = uuids + 1
             /\ up' = [pc |-> "upload", inst |-> edInst, albumId |-> route.albumId,
                       files |-> filesToProcess, idx |-> 1,
                       key |-> FileName(uuids + 1, filesToProcess[1].file),
                       successCount |-> 0, errorCount |-> 0]
  /\ UNCHANGED <<beSession, sessionsIssued, dbAlbums, dbPhotos, storage, authEvents,
                 getSessionPending, loginVars, dashVars, clearTimers, delPhoto,
                 setCover, save>>

(***************************************************************************)
(* The end of one iteration of the for loop: the item's status is set, the *)
(* counters are updated, and either the next iteration runs to its first   *)
(* await or the code after the loop runs (toasts, fetchAlbumData, the      *)
(* 3000 ms timer).                                                         *)
(***************************************************************************)
UploadIterationEnd(status, sameMs) ==
  LET item == up.files[up.idx]
      attached == Attached(up.inst)
      files1 == IF attached THEN SetStatus(ed.files, item.id, status) ELSE ed.files
      successCount == up.successCount + (IF status = "success" THEN 1 ELSE 0)
      errorCount == up.errorCount + (IF status = "error" THEN 1 ELSE 0)
      last == up.idx = Len(up.files)
      refetch == last /\ successCount > 0
      e1 == [ed EXCEPT !.files = files1]
  IN /\ Commit(route, ctx,
               IF refetch THEN LoadingAfterFetchCall(e1, up.inst, up.albumId) ELSE e1,
               attached, liveUrls,
               IF refetch THEN CallFetchAlbumData(up.inst, up.albumId) ELSE edFetch,
               dash, dashFetch, loginLoading)
     /\ IF last
        THEN /\ AddToasts((IF successCount > 0 THEN <<"success">> ELSE <<>>)
                            \o (IF errorCount > 0 THEN <<"error">> ELSE <<>>), sameMs)
             /\ clearTimers' = Append(clearTimers, up.inst)
             /\ up' = UpIdle
             /\ UNCHANGED uuids
        ELSE /\ UNCHANGED <<toastVars, clearTimers>>
             /\ uuids' = uuids + 1
             /\ up' = [up EXCEPT !.pc = "upload", !.idx = up.idx + 1,
                                 !.key = FileName(uuids + 1, up.files[up.idx + 1].file),
                                 !.successCount = successCount,
                                 !.errorCount = errorCount]

\* after: storage.from('gallery').upload(fileName, file)
handleUploadAllUploaded(uploadError, sameMs) ==
  /\ up.pc = "upload"
  /\ sdkCalls' = <<Call("handleUploadAll", "storage.upload", uploadError)>>
  /\ IF uploadError
     THEN /\ UploadIterationEnd("error", sameMs)
          /\ UNCHANGED storage
     ELSE /\ storage' = storage \cup {up.key}
          /\ up' = [up EXCEPT !.pc = "insert"]
          /\ UNCHANGED <<toastVars, viewVars, clearTimers, uuids>>
  /\ UNCHANGED <<beSession, sessionsIssued, dbAlbums, dbPhotos, authEvents,
                 getSessionPending, loginVars, dashVars, delPhoto, setCover, save>>

\* the row of insert({ image_url: urlData.publicUrl, album_id: albumId })
PhotoRowNoAlbum(key, albumId) ==
  [id |-> key[1].uuid, album_id |-> NoAlbum, image_url |-> getPublicUrl(key)]
PhotoRow(key, albumId) ==
  [id |-> key[1].uuid, album_id |-> albumId, image_url |-> getPublicUrl(key)]

\* after: insert into photos (image_url, album_id)
handleUploadAllInserted(insertError, sameMs) ==
  /\ up.pc = "insert"
  /\ up.albumId \notin DOMAIN dbAlbums => insertError
  /\ sdkCalls' = <<Call("handleUploadAll", "photos.insert", insertError)>>
  /\ IF insertError
     THEN /\ UploadIterationEnd("error", sameMs)
          /\ UNCHANGED dbPhotos
     ELSE /\ UploadIterationEnd("success", sameMs)
          /\ dbPhotos' = dbPhotos \cup {PhotoRow(up.key, up.albumId)}
  /\ UNCHANGED <<beSession, sessionsIssued, dbAlbums, storage, authEvents,
                 getSessionPending, loginVars, dashVars, delPhoto, setCover, save>>

\* prev.filter(f => f.status !== 'success')
ClearFinished(prev) ==
  FilterIdx(prev, {i \in DOMAIN prev : prev[i].status \notin {"success", "error"}}, 1)
ClearSuccessful(prev) ==
  FilterIdx(prev, {i \in DOMAIN prev : prev[i].status # "success"}, 1)

\* the setTimeout callback of handleUploadAll
ClearTimeout ==
  /\ clearTimers # <<>>
  /\ clearTimers' = Tail(clearTimers)
  /\ LET attached == Attached(Head(clearTimers))
     IN Commit(route, ctx,
               IF attached THEN [ed EXCEPT !.files = ClearSuccessful(ed.files)] ELSE ed,
               attached, liveUrls, edFetch, dash, dashFetch, loginLoading)
  /\ sdkCalls' = <<>>
  /\ UNCHANGED <<backendVars, authEvents, getSessionPending, toastVars, loginVars,
                 dashVars, up, delPhoto, setCover, save>>

---------------------------------------------------------------------------
(* AdminAlbumEditorPage: stored photos (part_000 864-899) *)

\* handleDeletePhoto up to its first await (the user confirms the dialog)
handleDeletePhoto(i, sameMs) ==
  /\ PhotoSectionShown
  /\ i \in DOMAIN ed.photos
  /\ delPhoto.pc = "idle"
  /\ sdkCalls' = <<>>
  /\ LET photo == ed.photos[i]
         filePath == SplitGalleryPop(photo.image_url)
     IN IF filePath = <<>>
        THEN /\ AddToasts(<<"error">>, sameMs)
             /\ UNCHANGED delPhoto
        ELSE /\ UNCHANGED toastVars
             /\ delPhoto' = [pc |-> "remove", inst |-> edInst, photo |-> photo,
                             albumId |-> route.albumId, album |-> ed.album,
                             path |-> filePath]
  /\ UNCHANGED <<backendVars, authVars, route, page, gal, galFetch,
                 loginLoading, loginVars, dash,
                 dashFetch, dashVars, ed, edInst, liveUrls, edFetch, clearTimers, up,
                 setCover, save>>

\* if (storageError) { addToast(...); return; }
StopsOnStorageErrorNever(storageError) == FALSE
StopsOnStorageError(storageError) == storageError

\* after: storage.from('gallery').remove([filePath])
handleDeletePhotoRemoved(storageError, sameMs) ==
  /\ delPhoto.pc = "remove"
  /\ sdkCalls' = <<Call("handleDeletePhoto", "storage.remove", storageError)>>
  /\ IF StopsOnStorageError(storageError)
     THEN /\ AddToasts(<<"error">>, sameMs)
          /\ delPhoto' = DelPhotoIdle
          /\ UNCHANGED storage
     ELSE /\ UNCHANGED toastVars
          /\ delPhoto' = [delPhoto EXCEPT !.pc = "delete"]
          /\ storage' = IF storageError THEN storage ELSE storage \ {delPhoto.path}
  /\ UNCHANGED <<beSession, sessionsIssued, dbAlbums, dbPhotos, uuids, authVars,
                 route, page, gal, galFetch,
                 loginLoading, loginVars, dash, dashFetch, dashVars, ed,
                 edInst, liveUrls, edFetch, clearTimers, up, setCover, save>>

\* after: delete from photos where id = photo.id
handleDeletePhotoDeleted(dbError, sameMs) ==
  /\ delPhoto.pc = "delete"
  /\ sdkCalls' = <<Call("handleDeletePhoto", "photos.delete", dbError)>>
  /\ IF dbError
     THEN /\ AddToasts(<<"error">>, sameMs)
          /\ delPhoto' = DelPhotoIdle
          /\ UNCHANGED <<dbPhotos, ed, edFetch>>
     ELSE /\ AddToasts(<<"success">>, sameMs)
          /\ dbPhotos' = {p \in dbPhotos : p.id # delPhoto.photo.id}
          /\ IF delPhoto.album.cover = delPhoto.photo.image_url
             THEN /\ delPhoto' = [delPhoto EXCEPT !.pc = "cover"]
                  /\ UNCHANGED <<ed, edFetch>>
             ELSE /\ delPhoto' = DelPhotoIdle
                  /\ edFetch' = CallFetchAlbumData(delPhoto.inst, delPhoto.albumId)
                  /\ ed' = LoadingAfterFetchCall(ed, delPhoto.inst, delPhoto.albumId)
  /\ UNCHANGED <<beSession, sessionsIssued, dbAlbums, storage, uuids, authVars, route,
                 page, gal, galFetch,
                 loginLoading, loginVars, dash, dashFetch, dashVars, edInst,
                 liveUrls, clearTimers, up, setCover, save>>

\* after: update albums set cover_image_url = null where id = album.id
\* (the result of this call is not read)
handleDeletePhotoCoverReset(coverError) ==
  /\ delPhoto.pc = "cover"
  /\ sdkCalls' = <<Call("handleDeletePhoto", "albums.update", coverError)>>
  /\ dbAlbums' = IF coverError THEN dbAlbums ELSE UpdateCover(delPhoto.album.id, NoUrl)
  /\ delPhoto' = DelPhotoIdle
  /\ edFetch' = CallFetchAlbumData(delPhoto.inst, delPhoto.albumId)
  /\ ed' = LoadingAfterFetchCall(ed, delPhoto.inst, delPhoto.albumId)
  /\ UNCHANGED <<beSession, sessionsIssued, dbPhotos, storage, uuids, authVars, route,
                 page, gal, galFetch,
                 toastVars, loginLoading, loginVars, dash, dashFetch, dashVars,
                 edInst, liveUrls, clearTimers, up, setCover, save>>

\* setAlbum(prev => ({ ...prev, cover_image_url: photoUrl }))
SetAlbumCoverKeeps(e, url) == e
SetAlbumCover(e, url) == [e EXCEPT !.album.cover = url]

\* handleSetCover up to its await
handleSetCover(i) ==
  /\ PhotoSectionShown
  /\ i \in DOMAIN ed.photos
  /\ setCover.pc = "idle"
  /\ setCover' = [pc |-> "update", inst |-> edInst, albumId |-> route.albumId,
                  url |-> ed.photos[i].image_url]
  /\ sdkCalls' = <<>>
  /\ UNCHANGED <<backendVars, authVars, route, page, gal, galFetch,
                 toastVars, loginLoading,
                 loginVars, dash, dashFetch, dashVars, ed, edInst, liveUrls, edFetch,
                 clearTimers, up, delPhoto, save>>

\* after: update albums set cover_image_url = photoUrl where id = albumId
handleSetCoverDone(error, sameMs) ==
  /\ setCover.pc = "update"
  /\ sdkCalls' = <<Call("handleSetCover", "albums.update", error)>>
  /\ setCover' = SetCoverIdle
  /\ IF error
     THEN /\ AddToasts(<<"error">>, sameMs)
          /\ UNCHANGED <<dbAlbums, ed>>
     ELSE /\ AddToasts(<<"success">>, sameMs)
          /\ dbAlbums' = UpdateCover(setCover.albumId, setCover.url)
          /\ ed' = IF Attached(setCover.inst)
                   THEN SetAlbumCover(ed, setCover.url) ELSE ed
  /\ UNCHANGED <<beSession, sessionsIssued, dbPhotos, storage, uuids, authVars, route,
                 page, gal, galFetch,
                 loginLoading, loginVars, dash, dashFetch, dashVars, edInst,
                 liveUrls, edFetch, clearTimers, up, delPhoto, save>>

---------------------------------------------------------------------------
(* AdminAlbumEditorPage: the album form (part_000 733-764, 911, 922) *)

\* titles the form can hold: empty, or some text
Titles == {"", "Album", "Album 2"}
\* ids the backend can give to a new albums row
NewAlbumIds == {"a2"}

\* <Input value={album.title} onChange=... />: the user edits the title
SetTitle(t) ==
  /\ EditorReady
  /\ t # ed.album.title
  /\ ed' = [ed EXCEPT !.album.title = t]
  /\ sdkCalls' = <<>>
  /\ UNCHANGED <<backendVars, authVars, route, page, gal, galFetch,
                 toastVars, loginLoading,
                 loginVars, dash, dashFetch, dashVars, edInst, liveUrls, edFetch,
                 edProcVars>>

\* if (!album.title)
TitleMissingNever(album) == FALSE
TitleMissing(album) == album.title = ""

\* setSaving(false), reaching the component the handler was started from
SavingDone(e, inst) == IF Attached(inst) THEN [e EXCEPT !.saving = FALSE] ELSE e

\* handleAlbumSave up to its await (the Save button is disabled while saving)
handleAlbumSave(sameMs) ==
  /\ EditorReady
  /\ ~ed.saving
  /\ save.pc = "idle"
  /\ sdkCalls' = <<>>
  /\ IF TitleMissing(ed.album)
     THEN /\ AddToasts(<<"error">>, sameMs)
          /\ UNCHANGED <<ed, save>>
     ELSE /\ UNCHANGED toastVars
          /\ ed' = [ed EXCEPT !.saving = TRUE]
          /\ save' = [pc |-> IF route.albumId = NoAlbum THEN "insert" ELSE "update",
                      inst |-> edInst, albumId |-> route.albumId,
                      title |-> ed.album.title, captions |-> ed.captions]
  /\ UNCHANGED <<backendVars, authVars, route, page, gal, galFetch,
                 loginLoading, loginVars, dash,
                 dashFetch, dashVars, edInst, liveUrls, edFetch, clearTimers, up,
                 delPhoto, setCover>>

\* after: insert into albums (title, description) ... select().single()
handleAlbumSaveInserted(error, sameMs) ==
  /\ save.pc = "insert"
  /\ NewAlbumIds \subseteq DOMAIN dbAlbums => error
  /\ sdkCalls' = <<Call("handleAlbumSave", "albums.insert", error)>>
  /\ save' = SaveIdle
  /\ IF error
     THEN /\ AddToasts(<<"error">>, sameMs)
          /\ UNCHANGED dbAlbums
          /\ Commit(route, ctx, SavingDone(ed, save.inst), FALSE, liveUrls, edFetch,
                    dash, dashFetch, loginLoading)
     ELSE LET id == CHOOSE a \in NewAlbumIds : a \notin DOMAIN dbAlbums
          IN /\ AddToasts(<<"success">>, sameMs)
             /\ dbAlbums' = [a \in DOMAIN dbAlbums \cup {id} |->
                               IF a = id THEN [cover |-> NoUrl, title |-> save.title]
                               ELSE dbAlbums[a]]
             /\ Commit(RAlbum("/admin/album/:albumId", id), ctx,
                       SavingDone(ed, save.inst), FALSE, liveUrls, edFetch, dash,
                       dashFetch, loginLoading)
  /\ UNCHANGED <<beSession, sessionsIssued, dbPhotos, storage, uuids, authEvents,
                 getSessionPending, loginVars, dashVars, clearTimers, up, delPhoto,
                 setCover>>

\* update albums set title, description where id = a
UpdateTitle(a, title) ==
  [b \in DOMAIN dbAlbums |->
     IF b = a THEN [dbAlbums[b] EXCEPT !.title = title] ELSE dbAlbums[b]]
\* Object.keys(captions).map(photoId => ...update({ caption }).eq('id', photoId))
RECURSIVE CaptionUpdates(_, _)
CaptionUpdates(ids, failed) ==
  IF ids = {} THEN <<>>
  ELSE LET id == Min(ids)
       IN <<CallOn("handleAlbumSave", "photos.update", id \in failed, id)>>
            \o CaptionUpdates(ids \ {id}, failed)
\* albumResult.error || captionResults.some(r => r.error)
SaveFailedAlbumOnly(albumError, failed) == albumError
SaveFailed(albumError, failed) == albumError \/ failed # {}

\* after: Promise.all([albums update, ...captionUpdates])
handleAlbumSaveUpdated(albumError, failed, sameMs) ==
  /\ save.pc = "update"
  /\ failed \subseteq save.captions
  /\ sdkCalls' = <<Call("handleAlbumSave", "albums.update", albumError)>>
                   \o CaptionUpdates(save.captions, failed)
  /\ save' = SaveIdle
  /\ dbAlbums' = IF albumError THEN dbAlbums ELSE UpdateTitle(save.albumId, save.title)
  /\ AddToasts(IF SaveFailed(albumError, failed) THEN <<"error">> ELSE <<"success">>,
               sameMs)
  /\ ed' = SavingDone(ed, save.inst)
  /\ UNCHANGED <<beSession, sessionsIssued, dbPhotos, storage, uuids, authVars, route,
                 page, gal, galFetch,
                 loginLoading, loginVars, dash, dashFetch, dashVars, edInst,
                 liveUrls, edFetch, clearTimers, up, delPhoto, setCover>>

---------------------------------------------------------------------------
(* Public pages (types.ts 67-89 PhotoLightbox, 166-215 AlbumDetailPage) *)

\* the updater functions of setCurrentIndex, n = photos.length
goToPrevious(prevIndex, n) == IF prevIndex = 0 THEN n - 1 ELSE prevIndex - 1
goToNext(prevIndex, n) == IF prevIndex = n - 1 THEN 0 ELSE prevIndex + 1
RECURSIVE goToNextTimes(_, _, _)
\* k consecutive goToNext steps
goToNextTimes(k, index, n) ==
  IF k = 0 THEN index ELSE goToNextTimes(k - 1, goToNext(index, n), n)

\* what every step of the public album page leaves alone
GalleryStep ==
  UNCHANGED <<backendVars, authVars, route, page, toastVars, loginLoading, loginVars,
              dash, dashFetch, dashVars, ed, edInst, liveUrls, edFetch, edProcVars>>

\* after: select * from albums where id = albumId (single), in the i-th
\* running fetchAlbumDetails
fetchAlbumDetailsAlbum(i, albumError) ==
  /\ i \in DOMAIN galFetch
  /\ galFetch[i].pc = "album"
  /\ galFetch[i].albumId \notin DOMAIN dbAlbums => albumError
  /\ sdkCalls' = <<Call("fetchAlbumDetails", "albums.select", albumError)>>
  /\ gal' = IF albumError THEN gal
            ELSE LET a == galFetch[i].albumId
                 IN RenderGallery(gal, [gal EXCEPT !.album =
                      [id |-> a, cover |-> dbAlbums[a].cover, title |-> dbAlbums[a].title]])
  /\ galFetch' = [galFetch EXCEPT ![i].pc = "photos"]
  /\ GalleryStep

\* after: select * from photos where album_id = albumId order by created_at
fetchAlbumDetailsPhotos(i, photosError) ==
  /\ i \in DOMAIN galFetch
  /\ galFetch[i].pc = "photos"
  /\ sdkCalls' = <<Call("fetchAlbumDetails", "photos.select", photosError)>>
  /\ gal' = RenderGallery(gal,
              [gal EXCEPT !.photos = IF photosError THEN @
                                     ELSE SortById(PhotosOf(galFetch[i].albumId)),
                          !.loading = FALSE])
  /\ galFetch' = FilterIdx(galFetch, DOMAIN galFetch \ {i}, 1)
  /\ GalleryStep

\* the album's photo grid is on screen and not covered by the lightbox's modal
PhotoGridShown ==
  /\ page = "AlbumDetailPage"
  /\ ~EffectPending
  /\ UserCanAct
  /\ ~gal.loading
  /\ gal.album.id # NoAlbum
  /\ ~(gal.lightboxOpen /\ gal.currentIndex \in 0..(Len(gal.photos) - 1))

\* a click on the photo at index (0-based, as in photos.map)
openLightbox(index) ==
  /\ PhotoGridShown
  /\ index \in 0..(Len(gal.photos) - 1)
  /\ gal' = RenderGallery(gal, [gal EXCEPT !.selectedPhotoIndex = index,
                                           !.lightboxOpen = TRUE])
  /\ sdkCalls' = <<>>
  /\ UNCHANGED galFetch
  /\ GalleryStep

\* the keydown listener of a mounted PhotoLightbox; the two buttons and the
\* modal's close control call the same functions
handleKeyDown(key) ==
  /\ page = "AlbumDetailPage"
  /\ LightboxMounted(gal)
  /\ LET n == Len(gal.photos)
         g == CASE key = "ArrowLeft" ->
                     [gal EXCEPT !.currentIndex = goToPrevious(gal.currentIndex, n)]
                [] key = "ArrowRight" ->
                     [gal EXCEPT !.currentIndex = goToNext(gal.currentIndex, n)]
                [] key = "Escape" -> [gal EXCEPT !.lightboxOpen = FALSE]
     IN /\ g.currentIndex \in (0 - MaxIndex)..MaxIndex
        /\ gal' = RenderGallery(gal, g)
  /\ sdkCalls' = <<>>
  /\ UNCHANGED galFetch
  /\ GalleryStep

---------------------------------------------------------------------------
(* Initial states *)

\* the session of an administrator who signed in before the run
AdminSession == [id |-> 0, user |-> "admin"]
StoredKey == <<[lit |-> "", uuid |-> 0, name |-> <<"s">>]>>
StoredPhoto == [id |-> 0, album_id |-> "a1", image_url |-> getPublicUrl(StoredKey)]

InitIdle ==
  /\ toasts = <<>> /\ toastTimers = <<>>
  /\ loginLoading = FALSE /\ loginProc = LoginIdle /\ logoutProc = LoginIdle
  /\ delProc = DelIdle
  /\ liveUrls = {} /\ clearTimers = <<>>
  /\ up = UpIdle /\ delPhoto = DelPhotoIdle
  /\ setCover = SetCoverIdle
  /\ save = SaveIdle
  /\ sdkCalls = <<>>
  /\ uuids = 0

\* the first render at location r: the page's components are mounted and their
\* mount effects have started
InitView(r) ==
  LET isEd == page = "AdminAlbumEditorPage"
  IN /\ route = r
     /\ page = Routes(r, ctx)
     /\ dash = DashInit
     /\ dashFetch = IF page = "AdminDashboardPage" THEN "pending" ELSE "idle"
     /\ edInst = IF isEd THEN 1 ELSE 0
     /\ ed = IF isEd THEN EdInit(r.albumId = NoAlbum) ELSE EdNone
     /\ edFetch = IF isEd /\ r.albumId # NoAlbum
                  THEN [pc |-> "album", inst |-> 1, albumId |-> r.albumId]
                  ELSE FetchIdle
     /\ gal = GalInit
     /\ galFetch = IF page = "AlbumDetailPage"
                   THEN <<[albumId |-> r.albumId, pc |-> "album"]>> ELSE <<>>

\* the application is opened at any location, signed in earlier or not
InitAuth ==
  /\ InitIdle
  /\ beSession \in {NullSession, AdminSession}
  /\ sessionsIssued = 0
  /\ dbAlbums = [a \in AlbumIds |-> [cover |-> NoUrl, title |-> "Album"]]
  /\ dbPhotos = {} /\ storage = {}
  /\ ctx = [session |-> NullSession, user |-> NullUser, loading |-> TRUE]
  /\ authEvents = <<>>
  /\ getSessionPending = TRUE
  /\ \E r \in {R("/"), R("/admin/login"), R("/admin")} : InitView(r)

\* a signed-in administrator at location r; album a1 holds one photo, which
\* is its cover if isCover
InitAdmin(r, isCover) ==
  /\ InitIdle
  /\ beSession = AdminSession
  /\ sessionsIssued = 0
  /\ dbAlbums = [a \in AlbumIds |->
                   [cover |-> IF isCover THEN StoredPhoto.image_url ELSE NoUrl,
                    title |-> "Album"]]
  /\ dbPhotos = {StoredPhoto}
  /\ storage = {StoredKey}
  /\ ctx = SetSession(AdminSession)
  /\ authEvents = <<>>
  /\ getSessionPending = FALSE
  /\ InitView(r)

\* a signed-in administrator in the editor of album a1, its data loaded, who
\* has selected the image file "limit" MaxQueue + 1 times
QueuedItems ==
  [i \in 1..(MaxQueue + 1) |->
     [id |-> i, file |-> "limit", previewUrl |-> i, status |-> "queued"]]
InitBatch ==
  /\ toasts = <<>> /\ toastTimers = <<>>
  /\ loginLoading = FALSE /\ loginProc = LoginIdle /\ logoutProc = LoginIdle
  /\ delProc = DelIdle
  /\ clearTimers = <<>>
  /\ up = UpIdle /\ delPhoto = DelPhotoIdle /\ setCover = SetCoverIdle /\ save = SaveIdle
  /\ sdkCalls = <<>>
  /\ uuids = 0
  /\ beSession = AdminSession
  /\ sessionsIssued = 0
  /\ dbAlbums = [a \in AlbumIds |-> [cover |-> NoUrl, title |-> "Album"]]
  /\ dbPhotos = {StoredPhoto}
  /\ storage = {StoredKey}
  /\ ctx = SetSession(AdminSession)
  /\ authEvents = <<>>
  /\ getSessionPending = FALSE
  /\ route = RAlbum("/admin/album/:albumId", "a1")
  /\ page = "AdminAlbumEditorPage"
  /\ dash = DashInit /\ dashFetch = "idle"
  /\ edInst = 1
  /\ gal = GalInit /\ galFetch = <<>>
  /\ edFetch = FetchIdle
  /\ ed = [album |-> [id |-> "a1", cover |-> NoUrl, title |-> "Album"],
           photos |-> <<StoredPhoto>>, captions |-> {StoredPhoto.id},
           loading |-> FALSE, saving |-> FALSE, files |-> QueuedItems]
  /\ liveUrls = PreviewUrls(QueuedItems)

---------------------------------------------------------------------------
(* Specifications *)

\* the locations visited while signing in and out
AuthRoutes == {R("/"), R("/admin/login"), R("/admin"), R("/admin/album/new"), R("*")}

\* steps of the platform, of timers and of effects: they need no user
AuthSystemStep ==
  \/ GetSessionResolves
  \/ OnAuthStateChange
  \/ ProtectedRedirect
  \/ HomeRedirect
  \/ LoginRedirect
  \/ \E ok \in BOOLEAN : SignInWithPassword(ok)
  \/ handleLoginReturn(FALSE)
  \/ \E ok \in BOOLEAN : SignOut(ok)
  \/ handleLogoutReturn(FALSE)
  \/ ToastTimeout

AuthUserStep ==
  \/ \E r \in AuthRoutes : Visit(r)
  \/ handleLogin
  \/ handleLogout

\* authentication and routing, from the moment the application is opened
NextAuth == AuthSystemStep \/ AuthUserStep
SpecAuth == InitAuth /\ [][NextAuth]_vars

\* every pending promise settles, every timer fires, every effect runs
AuthFairness ==
  /\ WF_vars(GetSessionResolves)
  /\ WF_vars(OnAuthStateChange)
  /\ WF_vars(ProtectedRedirect)
  /\ WF_vars(HomeRedirect)
  /\ WF_vars(LoginRedirect)
  /\ WF_vars(\E ok \in BOOLEAN : SignInWithPassword(ok))
  /\ WF_vars(handleLoginReturn(FALSE))
  /\ WF_vars(\E ok \in BOOLEAN : SignOut(ok))
  /\ WF_vars(handleLogoutReturn(FALSE))
  /\ WF_vars(ToastTimeout)

\* the same, with a user who does nothing more once the last sign-in of the
\* run has been accepted
UserActive == sessionsIssued < MaxSessions
NextSettle == AuthSystemStep \/ (UserActive /\ AuthUserStep)
SpecLoginSettle == InitAuth /\ [][NextSettle]_vars /\ AuthFairness

\* the album editor's upload queue, used by a signed-in administrator who has
\* opened the editor of album a1 and may leave it for the public home page
NextQueue ==
  \/ Visit(R("/"))
  \/ fetchAlbumDataAlbum(FALSE, FALSE)
  \/ fetchAlbumDataPhotos(FALSE, FALSE)
  \/ \E selectedFiles \in FileLists(MaxQueue + 1) : handleFileSelect(selectedFiles, FALSE)
  \/ \E id \in 1..(2 * MaxQueue) : removeFileFromQueue(id)
  \/ handleUploadAll(FALSE)
  \/ \E uploadError \in BOOLEAN : handleUploadAllUploaded(uploadError, FALSE)
  \/ \E insertError \in BOOLEAN : handleUploadAllInserted(insertError, FALSE)
  \/ ClearTimeout
  \/ ToastTimeout
SpecQueue == InitAdmin(RAlbum("/admin/album/:albumId", "a1"), FALSE) /\ [][NextQueue]_vars

\* the same editor with an administrator who stays and resubmits what failed:
\* an item that failed is removed, its file is selected again into the empty
\* queue and the queue is submitted; the backend accepts the last upload the
\* run has room for
ErrorItems == {i \in DOMAIN ed.files : ed.files[i].status = "error"}
NextRetry ==
  \/ fetchAlbumDataAlbum(FALSE, FALSE)
  \/ fetchAlbumDataPhotos(FALSE, FALSE)
  \/ ed.files = <<>> /\ handleFileSelect(<<"limit">>, FALSE)
  \/ \E i \in ErrorItems : removeFileFromQueue(ed.files[i].id)
  \/ handleUploadAll(FALSE)
  \/ \E e \in BOOLEAN : (e => uuids < MaxUploads) /\ handleUploadAllUploaded(e, FALSE)
  \/ \E e \in BOOLEAN : (e => uuids < MaxUploads) /\ handleUploadAllInserted(e, FALSE)
  \/ ClearTimeout
  \/ ToastTimeout
RetryFairness ==
  /\ WF_vars(fetchAlbumDataAlbum(FALSE, FALSE))
  /\ WF_vars(fetchAlbumDataPhotos(FALSE, FALSE))
  /\ WF_vars(ed.files = <<>> /\ handleFileSelect(<<"limit">>, FALSE))
  /\ WF_vars(\E i \in ErrorItems : removeFileFromQueue(ed.files[i].id))
  /\ WF_vars(handleUploadAll(FALSE))
  /\ WF_vars(\E e \in BOOLEAN : (e => uuids < MaxUploads) /\ handleUploadAllUploaded(e, FALSE))
  /\ WF_vars(\E e \in BOOLEAN : (e => uuids < MaxUploads) /\ handleUploadAllInserted(e, FALSE))
  /\ WF_vars(ClearTimeout)
  /\ WF_vars(ToastTimeout)
SpecRetry ==
  InitAdmin(RAlbum("/admin/album/:albumId", "a1"), FALSE) /\ [][NextRetry]_vars
    /\ RetryFairness

\* an administrator queues a file in the editor of album a1, may start the
\* upload, and goes to the dashboard to delete the album
NextAlbum ==
  \/ Visit(R("/admin"))
  \/ fetchAlbumsAndStats(FALSE, FALSE, FALSE)
  \/ fetchAlbumDataAlbum(FALSE, FALSE)
  \/ fetchAlbumDataPhotos(FALSE, FALSE)
  \/ \E a \in AlbumIds : handleDelete(a)
  \/ \E e \in BOOLEAN : handleDeleteSelected(e, FALSE)
  \/ \E e \in BOOLEAN : handleDeleteRemoved(e, FALSE)
  \/ \E e \in BOOLEAN : handleDeleteDone(e, FALSE)
  \/ handleFileSelect(<<"limit">>, FALSE)
  \/ handleUploadAll(FALSE)
  \/ \E e \in BOOLEAN : handleUploadAllUploaded(e, FALSE)
  \/ \E e \in BOOLEAN : handleUploadAllInserted(e, FALSE)
  \/ ClearTimeout
  \/ ToastTimeout
SpecAlbum == InitAdmin(RAlbum("/admin/album/:albumId", "a1"), FALSE) /\ [][NextAlbum]_vars

\* the album form: an administrator edits the title and saves, in the editor
\* of a new album or of album a1
NextSave ==
  \/ \E r \in {R("/"), R("/admin/album/new"), RAlbum("/admin/album/:albumId", "a1")} :
       Visit(r)
  \/ fetchAlbumDataAlbum(FALSE, FALSE)
  \/ \E e \in BOOLEAN : fetchAlbumDataPhotos(e, FALSE)
  \/ \E t \in Titles : SetTitle(t)
  \/ handleAlbumSave(FALSE)
  \/ \E e \in BOOLEAN : handleAlbumSaveInserted(e, FALSE)
  \/ \E e \in BOOLEAN : \E failed \in SUBSET {q.id : q \in dbPhotos} :
       handleAlbumSaveUpdated(e, failed, FALSE)
  \/ ToastTimeout
SpecSave ==
  (\E r \in {R("/admin/album/new"), RAlbum("/admin/album/:albumId", "a1")} :
     InitAdmin(r, FALSE))
    /\ [][NextSave]_vars

\* uploads and the editor's two modes: an administrator queues a file in the
\* editor of album a1, uploads it, moves between that editor and the editor
\* of a new album (the same component instance), and creates an album
NextNew ==
  \/ \E r \in {R("/admin/album/new"), RAlbum("/admin/album/:albumId", "a1")} : Visit(r)
  \/ fetchAlbumDataAlbum(FALSE, FALSE)
  \/ fetchAlbumDataPhotos(FALSE, FALSE)
  \/ handleFileSelect(<<"limit">>, FALSE)
  \/ handleUploadAll(FALSE)
  \/ \E e \in BOOLEAN : handleUploadAllUploaded(e, FALSE)
  \/ \E e \in BOOLEAN : handleUploadAllInserted(e, FALSE)
  \/ ClearTimeout
  \/ SetTitle("Album 2")
  \/ route.albumId = NoAlbum /\ handleAlbumSave(FALSE)
  \/ handleAlbumSaveInserted(FALSE, FALSE)
  \/ ToastTimeout
SpecNew == InitAdmin(RAlbum("/admin/album/:albumId", "a1"), FALSE) /\ [][NextNew]_vars

\* one batch of Upload All over a queue of several items; the administrator
\* may remove items that are not uploading and may leave for the home page
NextBatch ==
  \/ Visit(R("/"))
  \/ fetchAlbumDataAlbum(FALSE, FALSE)
  \/ fetchAlbumDataPhotos(FALSE, FALSE)
  \/ \E id \in 1..(MaxQueue + 1) : removeFileFromQueue(id)
  \/ handleFileSelect(<<"limit">>, FALSE)
  \/ handleUploadAll(FALSE)
  \/ \E e \in BOOLEAN : handleUploadAllUploaded(e, FALSE)
  \/ \E e \in BOOLEAN : handleUploadAllInserted(e, FALSE)
  \/ ClearTimeout
  \/ ToastTimeout
\* every backend call returns and every timer fires
BatchFairness ==
  /\ WF_vars(fetchAlbumDataAlbum(FALSE, FALSE))
  /\ WF_vars(fetchAlbumDataPhotos(FALSE, FALSE))
  /\ WF_vars(\E e \in BOOLEAN : handleUploadAllUploaded(e, FALSE))
  /\ WF_vars(\E e \in BOOLEAN : handleUploadAllInserted(e, FALSE))
  /\ WF_vars(ClearTimeout)
  /\ WF_vars(ToastTimeout)
SpecBatch == InitBatch /\ [][NextBatch]_vars /\ BatchFairness

\* the toasts of the editor of album a1: files that are not accepted are
\* selected (each adds one toast) and the queue is uploaded (the end of a
\* batch adds up to two toasts); the addToast calls of one step may or may
\* not fall into the same millisecond
NextToast ==
  \/ fetchAlbumDataAlbum(FALSE, FALSE)
  \/ fetchAlbumDataPhotos(FALSE, FALSE)
  \/ \E selectedFiles \in FileLists(2), sameMs \in BOOLEAN :
       /\ \A i \in DOMAIN selectedFiles : ~Accepted(selectedFiles[i])
       /\ handleFileSelect(selectedFiles, sameMs)
  \/ handleUploadAll(FALSE)
  \/ \E e, sameMs \in BOOLEAN : handleUploadAllUploaded(e, sameMs)
  \/ \E e, sameMs \in BOOLEAN : handleUploadAllInserted(e, sameMs)
  \/ ClearTimeout
  \/ ToastTimeout
\* every backend call returns and every timer fires
SpecToast ==
  /\ InitBatch /\ [][NextToast]_vars
  /\ WF_vars(fetchAlbumDataAlbum(FALSE, FALSE))
  /\ WF_vars(fetchAlbumDataPhotos(FALSE, FALSE))
  /\ WF_vars(\E e, sameMs \in BOOLEAN : handleUploadAllUploaded(e, sameMs))
  /\ WF_vars(\E e, sameMs \in BOOLEAN : handleUploadAllInserted(e, sameMs))
  /\ WF_vars(ClearTimeout)
  /\ WF_vars(ToastTimeout)

\* deleting stored photos and choosing the cover in the editor of album a1
NextPhotos ==
  \/ \E r \in {R("/"), RAlbum("/admin/album/:albumId", "a1")} : Visit(r)
  \/ fetchAlbumDataAlbum(FALSE, FALSE)
  \/ fetchAlbumDataPhotos(FALSE, FALSE)
  \/ \E i \in 1..(MaxUploads + 1) : handleDeletePhoto(i, FALSE)
  \/ \E e \in BOOLEAN : handleDeletePhotoRemoved(e, FALSE)
  \/ \E e \in BOOLEAN : handleDeletePhotoDeleted(e, FALSE)
  \/ \E e \in BOOLEAN : handleDeletePhotoCoverReset(e)
  \/ \E i \in 1..(MaxUploads + 1) : handleSetCover(i)
  \/ \E e \in BOOLEAN : handleSetCoverDone(e, FALSE)
  \/ ToastTimeout
SpecPhotos == (\E isCover \in BOOLEAN : InitAdmin(R("/"), isCover)) /\ [][NextPhotos]_vars


\* a visitor, not signed in, opens the public page of album a1, which holds
\* two photos; the visitor may change the address to the home page or to
\* the page of an album id that does not exist
InitGallery ==
  /\ InitIdle
  /\ beSession = NullSession
  /\ sessionsIssued = 0
  /\ dbAlbums = [a \in AlbumIds |-> [cover |-> NoUrl, title |-> "Album"]]
  /\ dbPhotos = {StoredPhoto, PhotoRow(FileName(1, "limit"), "a1")}
  /\ storage = {StoredKey, FileName(1, "limit")}
  /\ ctx = SetSession(NullSession)
  /\ authEvents = <<>>
  /\ getSessionPending = FALSE
  /\ InitView(RAlbum("/gallery/:albumId", "a1"))
NextGallery ==
  \/ \E r \in {R("/"), RAlbum("/gallery/:albumId", "a1"),
               RAlbum("/gallery/:albumId", "a0")} : Visit(r)
  \/ \E i \in 1..(MaxFetches + 1), e \in BOOLEAN : fetchAlbumDetailsAlbum(i, e)
  \/ \E i \in 1..(MaxFetches + 1), e \in BOOLEAN : fetchAlbumDetailsPhotos(i, e)
  \/ \E index \in 0..MaxIndex : openLightbox(index)
  \/ \E key \in {"ArrowLeft", "ArrowRight", "Escape"} : handleKeyDown(key)
SpecGallery == InitGallery /\ [][NextGallery]_vars

---------------------------------------------------------------------------
(* The upload queue *)

\* C1: the status of a queue item only moves queued -> uploading -> success
\* or queued -> uploading -> error: an item that enters the queue is queued,
\* and in every step an item that stays in the queue keeps its status, goes
\* from queued to uploading, or goes from uploading to success or to error.
C1_StatusOrder ==
  [][\A i \in DOMAIN ed'.files :
       LET before == {j \in DOMAIN ed.files : ed.files[j].id = ed'.files[i].id}
       IN IF edInst' = edInst /\ before # {}
          THEN \A j \in before :
                 \/ ed'.files[i].status = ed.files[j].status
                 \/ <<ed.files[j].status, ed'.files[i].status>> \in
                      {<<"queued", "uploading">>, <<"uploading", "success">>,
                       <<"uploading", "error">>}
          ELSE ed'.files[i].status = "queued"]_vars
\* an item has gone all the way to success
C1_Witness ==
  /\ page = "AdminAlbumEditorPage"
  /\ \E i \in DOMAIN ed.files : ed.files[i].status = "success"

\* C2: a file whose upload failed can be resubmitted: with an administrator
\* who removes the failed item, selects the file again and submits the queue,
\* a file whose item has status error gets an item with status success, as
\* long as the run has room for another upload.
C2_RetryReaches ==
  (uuids < MaxUploads /\ \E i \in ErrorItems : ed.files[i].file = "limit")
    ~> (\E i \in DOMAIN ed.files :
          ed.files[i].file = "limit" /\ ed.files[i].status = "success")
\* the second attempt succeeded: the storage holds the object of the second key
C2_Witness ==
  /\ uuids = 2
  /\ \E i \in DOMAIN ed.files :
       ed.files[i].file = "limit" /\ ed.files[i].status = "success"
  /\ \E k \in storage : k[1].uuid = 2
  /\ \A k \in storage : k[1].uuid # 1

\* C3: handleFileSelect appends to the queue, in the order of the selection
\* and with status queued, exactly the files whose type starts with image/
\* and whose size is at most 5 * 1024 * 1024 bytes; the items already queued
\* stay as they are, and every other file of the selection adds one error toast.
C3_Validation ==
  [][\A selectedFiles \in FileLists(MaxQueue + 1) :
       handleFileSelect(selectedFiles, FALSE) =>
         LET ok == {i \in DOMAIN selectedFiles :
                      /\ StartsWith(Files[selectedFiles[i]].type, <<"i", "m", "a", "g", "e", "/">>)
                      /\ Files[selectedFiles[i]].size <= 5 * 1024 * 1024}
             n == Len(ed.files)
         IN /\ Len(ed'.files) = n + Cardinality(ok)
            /\ SubSeq(ed'.files, 1, n) = ed.files
            /\ [i \in 1..Cardinality(ok) |-> ed'.files[n + i].file]
                 = FilterIdx(selectedFiles, ok, 1)
            /\ \A i \in 1..Cardinality(ok) : ed'.files[n + i].status = "queued"
            /\ Len(toasts') = Len(toasts) + Len(selectedFiles) - Cardinality(ok)
            /\ \A i \in (Len(toasts) + 1)..Len(toasts') : toasts'[i].type = "error"]_vars
\* a selection of a file of exactly 5 MiB and a rejected file: the first is
\* queued, the second has its toast
C3_Witness ==
  /\ uuids = 0
  /\ Len(ed.files) = 1
  /\ ed.files[1].file = "limit" /\ ed.files[1].status = "queued"
  /\ Len(toasts) = 1 /\ toasts[1].type = "error"

\* C4: a preview URL that has not been revoked belongs to an item of the
\* queue of the mounted editor: when an item leaves the queue or the editor
\* unmounts, its URL has been revoked.
C4_UrlsRevoked ==
  /\ liveUrls \subseteq PreviewUrls(ed.files)
  /\ page # "AdminAlbumEditorPage" => liveUrls = {}
\* the uploaded items have left the queue of the editor that is still mounted
C4_Witness ==
  /\ page = "AdminAlbumEditorPage"
  /\ uuids > 0 /\ up.pc = "idle" /\ clearTimers = <<>>
  /\ ed.files = <<>>
  /\ liveUrls = {}

---------------------------------------------------------------------------
(* Authentication and routing *)

\* C5: an admin page is on screen only while the auth context holds a session
\* and is not loading; at an admin route with no session and loading false
\* the <Navigate> of ProtectedRoute is rendered, and the location it leads to
\* is /admin/login.
C5_ProtectedPages ==
  /\ [](page \in AdminPages => ctx.session # NullSession /\ ~ctx.loading)
  /\ [](route.path \in ProtectedPaths /\ ~ctx.loading /\ ctx.session = NullSession
          => page = "NavigateToLogin")
  /\ [][page = "NavigateToLogin" /\ ProtectedRedirect
         => route' = R("/admin/login") /\ page' = "AdminLoginPage"]_vars
\* a visit of /admin/album/new with no session renders the redirect
C5_Witness ==
  /\ route = R("/admin/album/new") /\ page = "NavigateToLogin"
  /\ ~ctx.loading /\ ctx.session = NullSession

\* C6: once signInWithPassword has returned without error, with the session
\* it created still the backend's, no sign-out request under way and a user
\* who does nothing more, the application reaches the dashboard at /admin and
\* stays there, whether handleLogin navigates before or after the auth event
\* is delivered.
C6_LoginSettles ==
  (/\ loginProc.pc = "returned" /\ loginProc.ok
   /\ beSession # NullSession /\ logoutProc.pc # "signOut"
   /\ ~UserActive)
    ~> [](route = R("/admin") /\ page = "AdminDashboardPage")
\* the navigation of handleLogin ran before the event was delivered and was
\* sent back to the login page
C6_Witness ==
  /\ route = R("/admin/login") /\ page = "AdminLoginPage"
  /\ sessionsIssued = 1 /\ beSession.id = 1
  /\ loginProc = LoginIdle
  /\ ctx.session = NullSession
  /\ authEvents # <<>>

\* C7: after signOut has returned without error no admin page comes up again
\* before a new sign-in succeeds: while the backend holds no session, a step
\* that starts without an admin page on screen ends without one.
C7_NoPageAfterSignOut ==
  [][beSession = NullSession /\ beSession' = NullSession /\ page \notin AdminPages
       => page' \notin AdminPages]_vars

---------------------------------------------------------------------------
(* Admin mutations *)

\* C8: a backend call of an admin mutation that returns an error adds an
\* error toast in the step that reads its result (an upload shows its error
\* toast when the batch ends, so handleUploadAll is left to its own claim).
C8_ErrorsToasted ==
  [][\A i \in DOMAIN sdkCalls' :
       (/\ sdkCalls'[i].err
        /\ sdkCalls'[i].who \in {"handleLogin", "handleLogout", "handleDelete",
                                 "handleDeletePhoto", "handleSetCover"})
         => \E j \in DOMAIN toasts' : j > Len(toasts) /\ toasts'[j].type = "error"]_vars

\* C9: when handleDelete ends with the success toast, no storage object of a
\* photo that the album held is left in the bucket.
C9_StorageEmptied ==
  [][(/\ delProc.pc = "delete" /\ delProc' = DelIdle
      /\ \E j \in DOMAIN toasts' : j > Len(toasts) /\ toasts'[j].type = "success")
       => \A p \in PhotosOf(delProc.albumId) :
            \A k \in storage' : getPublicUrl(k) # p.image_url]_vars

\* C10: handleDelete calls no delete on the photos table, and every photos
\* row belongs to an album that exists: once the albums row is deleted no row
\* with its id is left, and none appears when an upload is still running.
C10_CascadeOnly ==
  /\ \A i \in DOMAIN sdkCalls :
       sdkCalls[i].who = "handleDelete" => sdkCalls[i].op # "photos.delete"
  /\ \A p \in dbPhotos : p.album_id \in DOMAIN dbAlbums
\* the album was deleted while an upload into it was running: the upload's
\* object is stored, its row was refused
C10_Witness ==
  /\ "a1" \notin DOMAIN dbAlbums
  /\ sdkCalls = <<Call("handleUploadAll", "photos.insert", TRUE)>>
  /\ \E k \in storage : k[1].uuid = 1
  /\ dbPhotos = {}

\* C11: when handleSetCover's update returns without error, the stored
\* cover_image_url of the album and the album state of the editor the handler
\* was started from both equal the chosen photo's URL and a success toast is
\* added; when it returns an error, the stored cover and the editor's album
\* state are unchanged and an error toast is added.
C11_SetCover ==
  [][setCover.pc = "update" /\ setCover' = SetCoverIdle =>
       LET new == {j \in DOMAIN toasts' : j > Len(toasts)}
       IN IF sdkCalls'[1].err
          THEN /\ ed'.album = ed.album
               /\ dbAlbums' = dbAlbums
               /\ \E j \in new : toasts'[j].type = "error"
               /\ \A j \in new : toasts'[j].type # "success"
          ELSE /\ dbAlbums'[setCover.albumId].cover = setCover.url
               /\ Attached(setCover.inst) => ed'.album.cover = setCover.url
               /\ \E j \in new : toasts'[j].type = "success"
               /\ \A j \in new : toasts'[j].type # "error"]_vars

C11_Witness ==
  /\ sdkCalls = <<Call("handleSetCover", "albums.update", FALSE)>>
  /\ page = "AdminAlbumEditorPage"
  /\ ed.album.cover = StoredPhoto.image_url
  /\ dbAlbums["a1"].cover = StoredPhoto.image_url
  /\ toasts # <<>> /\ toasts[Len(toasts)].type = "success"

\* C12: saving an existing album takes the title and the caption map of the
\* form as they are when Save is pressed; the step that ends the save has
\* issued exactly one albums update and exactly one photos update for every
\* photo id of that caption map; it adds exactly one toast, a success toast if
\* none of these calls returned an error and an error toast otherwise; and
\* the saving flag of the editor the save was started from is false again.
C12_SaveExisting ==
  [][/\ (save.pc = "idle" /\ save'.pc = "update") =>
          /\ save'.captions = ed.captions
          /\ save'.title = ed.album.title
          /\ save'.albumId = route.albumId
          /\ ed'.saving
     /\ (save.pc = "update" /\ save' = SaveIdle) =>
          LET calls == sdkCalls'
              new == {j \in DOMAIN toasts' : j > Len(toasts)}
              failed == \E c \in DOMAIN calls : calls[c].err
          IN /\ Cardinality({c \in DOMAIN calls : calls[c].op = "albums.update"}) = 1
             /\ \A id \in save.captions :
                  Cardinality({c \in DOMAIN calls :
                                 calls[c].op = "photos.update" /\ calls[c].id = id}) = 1
             /\ Len(calls) = 1 + Cardinality(save.captions)
             /\ Cardinality(new) = 1
             /\ \A j \in new : toasts'[j].type = IF failed THEN "error" ELSE "success"
             /\ Attached(save.inst) => ~ed'.saving]_vars

C12_Witness ==
  /\ sdkCalls = <<Call("handleAlbumSave", "albums.update", FALSE),
                  CallOn("handleAlbumSave", "photos.update", TRUE, StoredPhoto.id)>>
  /\ page = "AdminAlbumEditorPage" /\ route.albumId = "a1"
  /\ ~ed.saving
  /\ toasts # <<>> /\ toasts[Len(toasts)].type = "error"

\* C13: pressing Save with an empty title, in the editor of a new or of an
\* existing album, adds an error toast and nothing else: no backend call is
\* made and none is started, the backend is unchanged, the saving flag stays
\* false and the location does not change.
C13_EmptyTitleRejected ==
  [][(handleAlbumSave(FALSE) /\ ed.album.title = "") =>
       /\ Len(toasts') = Len(toasts) + 1
       /\ toasts'[Len(toasts')].type = "error"
       /\ sdkCalls' = <<>>
       /\ save' = SaveIdle
       /\ ~ed'.saving
       /\ route' = route /\ page' = page
       /\ UNCHANGED backendVars]_vars

C13_Witness ==
  /\ page = "AdminAlbumEditorPage" /\ route = R("/admin/album/new")
  /\ ed.album.title = "" /\ ~ed.saving /\ save = SaveIdle
  /\ sdkCalls = <<>>
  /\ toasts # <<>> /\ toasts[Len(toasts)].type = "error"
  /\ DOMAIN dbAlbums = AlbumIds

C15_BatchProcessing ==
  /\ [](up.pc # "idle" =>
          /\ up.idx \in DOMAIN up.files
          /\ up.successCount + up.errorCount = up.idx - 1)
  /\ [][/\ (up.pc = "idle" /\ up'.pc # "idle") =>
             /\ up'.files = SelectSeq(ed.files, LAMBDA f : f.status = "queued")
             /\ up'.idx = 1 /\ up'.pc = "upload"
        /\ (up.pc # "idle" /\ up' # up) =>
             LET err == sdkCalls'[1].err
                 item == up.files[up.idx]
                 done == err \/ up.pc = "insert"
                 last == up.idx = Len(up.files)
                 sc == up.successCount + (IF done /\ ~err THEN 1 ELSE 0)
                 ec == up.errorCount + (IF err THEN 1 ELSE 0)
                 new == {j \in DOMAIN toasts' : j > Len(toasts)}
             IN /\ up'.pc # "idle" => up'.files = up.files
                /\ ~done => up'.idx = up.idx /\ up'.pc = "insert"
                /\ (done /\ ~last) => up'.idx = up.idx + 1 /\ up'.pc = "upload"
                /\ (done /\ last) =>
                     /\ up' = UpIdle
                     /\ sc + ec = Len(up.files)
                     /\ (\E j \in new : toasts'[j].type = "success") <=> sc > 0
                     /\ (\E j \in new : toasts'[j].type = "error") <=> ec > 0
                /\ (done /\ Attached(up.inst)) =>
                     /\ Len(ed'.files) = Len(ed.files)
                     /\ \A k \in DOMAIN ed.files :
                          IF ed.files[k].id = item.id
                          THEN ed'.files[k].status = IF err THEN "error" ELSE "success"
                          ELSE ed'.files[k] = ed.files[k]]_vars

C15_Witness ==
  /\ page = "AdminAlbumEditorPage" /\ up = UpIdle /\ uuids = MaxQueue + 1
  /\ Len(ed.files) = MaxQueue + 1
  /\ ed.files[1].status = "error"
  /\ \A k \in 2..(MaxQueue + 1) : ed.files[k].status = "success"
  /\ Len(toasts) = 2 /\ toasts[1].type = "success" /\ toasts[2].type = "error"

\* C16: if every backend call returns, an item in status uploading in the
\* mounted editor eventually is in status success or error (or the editor has
\* been left); and whenever no handleUploadAll is running no item is in
\* status uploading, so the Upload button is enabled exactly when queued
\* items exist.
C16_UploadingEnds ==
  /\ \A id \in 1..(MaxQueue + 1) :
       (\E k \in DOMAIN ed.files : ed.files[k].id = id /\ ed.files[k].status = "uploading")
         ~> \/ page # "AdminAlbumEditorPage"
            \/ \E k \in DOMAIN ed.files :
                 ed.files[k].id = id /\ ed.files[k].status \in {"success", "error"}
  /\ [](up.pc = "idle" => ~isUploading)
  /\ []((/\ up.pc = "idle" /\ PhotoSectionShown /\ Queued(ed.files) # {}
          /\ uuids + Cardinality(Queued(ed.files)) <= MaxUploads
          /\ Len(clearTimers) <= MaxTimers)
          => ENABLED handleUploadAll(FALSE))

C16_Witness ==
  /\ page = "AdminAlbumEditorPage" /\ up = UpIdle /\ uuids > 0
  /\ \E k \in DOMAIN ed.files : ed.files[k].status = "queued"
  /\ ~isUploading
  /\ ENABLED handleUploadAll(FALSE)

\* C17: when a step of handleUploadAll ends an item with an error (its
\* storage upload or its photos insert returned an error), no object with the
\* item's storage key is in the bucket and no photos row has its public URL.
C17_ErrorLeavesNothing ==
  [][(up.pc \in {"upload", "insert"} /\ sdkCalls' # <<>> /\ sdkCalls'[1].err) =>
       /\ up.key \notin storage'
       /\ \A p \in dbPhotos' : p.image_url # getPublicUrl(up.key)]_vars

\* C18: the step that ends a batch of Upload All sets one 3000 ms timer; when
\* a timer fires in the mounted editor the queue becomes the queue without
\* its success items, the other items staying in order and unchanged; every
\* timer set fires.
C18_ClearAfterDelay ==
  /\ [][/\ (up.pc # "idle" /\ up' = UpIdle) => clearTimers' = Append(clearTimers, up.inst)
        /\ Len(clearTimers') > Len(clearTimers) => (up.pc # "idle" /\ up' = UpIdle)
        /\ Len(clearTimers') < Len(clearTimers) =>
             /\ clearTimers' = Tail(clearTimers)
             /\ IF Attached(Head(clearTimers))
                THEN ed'.files = SelectSeq(ed.files, LAMBDA f : f.status # "success")
                ELSE ed'.files = ed.files]_vars
  /\ \A n \in 1..(MaxTimers + 1) : (Len(clearTimers) = n) ~> (Len(clearTimers) < n)

C18_Witness ==
  /\ page = "AdminAlbumEditorPage" /\ up = UpIdle /\ uuids = MaxQueue + 1
  /\ clearTimers = <<>>
  /\ Len(ed.files) = 1 /\ ed.files[1].status = "error"
  /\ Cardinality(dbPhotos) = MaxQueue + 1
  /\ Len(toasts) = 2

\* C19: handleDeletePhoto deletes the photos row only after the removal of the
\* photo's storage object has returned without error; when the removal
\* returns an error the handler ends there: an error toast is added, the
\* photos and albums tables are unchanged and no fetchAlbumData is started.
C19_StorageBeforeRow ==
  [][/\ (delPhoto.pc = "remove" /\ delPhoto' # delPhoto) =>
          IF sdkCalls'[1].err
          THEN /\ delPhoto' = DelPhotoIdle
               /\ dbPhotos' = dbPhotos /\ dbAlbums' = dbAlbums /\ storage' = storage
               /\ edFetch' = edFetch /\ ed' = ed
               /\ Len(toasts') = Len(toasts) + 1
               /\ toasts'[Len(toasts')].type = "error"
          ELSE /\ delPhoto'.pc = "delete"
               /\ delPhoto.path \notin storage'
               /\ dbPhotos' = dbPhotos
     /\ (\E p \in dbPhotos \ dbPhotos' : TRUE) =>
          /\ delPhoto.pc = "delete"
          /\ dbPhotos \ dbPhotos' = {delPhoto.photo}
          /\ getPublicUrl(delPhoto.path) = delPhoto.photo.image_url
          /\ delPhoto.path \notin storage]_vars

C19_Witness ==
  /\ sdkCalls = <<Call("handleDeletePhoto", "storage.remove", TRUE)>>
  /\ delPhoto = DelPhotoIdle
  /\ StoredPhoto \in dbPhotos /\ StoredKey \in storage
  /\ toasts # <<>> /\ toasts[Len(toasts)].type = "error"

\* C20: whenever no photo deletion, set-cover, upload or save is running,
\* the stored cover_image_url of every album is null or the image_url of a
\* photos row of that album.
C20_CoverIsPhoto ==
  (delPhoto = DelPhotoIdle /\ setCover = SetCoverIdle /\ up = UpIdle /\ save = SaveIdle)
    => \A a \in DOMAIN dbAlbums :
         \/ dbAlbums[a].cover = NoUrl
         \/ \E p \in PhotosOf(a) : p.image_url = dbAlbums[a].cover

\* C21: the auth context starts with loading true; loading becomes false in
\* the step in which the initial getSession resolves or an auth-state-change
\* event is delivered, whichever comes first, in no other step, and is never
\* true again; while loading is true a protected route shows the spinner:
\* no admin page is rendered and no redirect to /admin/login is pending.
C21_LoadingOnce ==
  /\ ctx.loading
  /\ [][/\ (getSessionPending /\ ~getSessionPending') => ~ctx'.loading
        /\ Len(authEvents') < Len(authEvents) => ~ctx'.loading
        /\ (ctx.loading /\ ~ctx'.loading) =>
             \/ getSessionPending /\ ~getSessionPending'
             \/ Len(authEvents') < Len(authEvents)
        /\ ~ctx.loading => ~ctx'.loading]_vars
  /\ []((ctx.loading /\ route.path \in ProtectedPaths) => page = "Spinner")
  /\ [](ctx.loading => page \notin AdminPages \cup {"NavigateToLogin"})

C21_Witness ==
  /\ ~ctx.loading /\ getSessionPending
  /\ ctx.session # NullSession
  /\ route = R("/admin") /\ page = "AdminDashboardPage"

---------------------------------------------------------------------------
(* Toasts *)

\* C22: a step that adds toasts appends them to the end of the toast list in
\* the order of its addToast calls and sets one 5000 ms timer per toast; the
\* timers fire in the order they were set, and a firing timer removes the
\* toasts of its id and nothing else, the others keeping their order; a
\* toast on the list always has a pending timer, every toast is removed,
\* and once no further toast is added the list becomes and stays empty.
C22_ToastLifetime ==
  /\ [][/\ Len(toastTimers') > Len(toastTimers) =>
             /\ SubSeq(toasts', 1, Len(toasts)) = toasts
             /\ SubSeq(toastTimers', 1, Len(toastTimers)) = toastTimers
             /\ Len(toasts') - Len(toasts) = Len(toastTimers') - Len(toastTimers)
             /\ \A k \in 1..(Len(toasts') - Len(toasts)) :
                  toasts'[Len(toasts) + k].id = toastTimers'[Len(toastTimers) + k]
        /\ Len(toastTimers') < Len(toastTimers) =>
             /\ toastTimers' = Tail(toastTimers)
             /\ toasts' = SelectSeq(toasts, LAMBDA t : t.id # Head(toastTimers))
        /\ Len(toastTimers') = Len(toastTimers) =>
             toasts' = toasts /\ toastTimers' = toastTimers]_vars
  /\ [](\A i \in DOMAIN toasts : toasts[i].id \in Range(toastTimers))
  /\ \A id \in 1..(MaxTimers + 4) :
       (\E i \in DOMAIN toasts : toasts[i].id = id)
         ~> ~(\E i \in DOMAIN toasts : toasts[i].id = id)
  /\ (<>[][Len(toastTimers') <= Len(toastTimers)]_vars) => <>[](toasts = <<>>)

C22_Witness ==
  /\ Len(toasts) = 1 /\ toasts[1].type = "error"
  /\ Len(toastTimers) = 1
  /\ up = UpIdle /\ uuids = MaxQueue + 1
  /\ Cardinality(dbPhotos) = 2

\* C29: the toasts on the list have pairwise distinct ids, and a firing
\* dismissal timer removes at most one toast, the one it was set for, also
\* when one step calls addToast several times within the same millisecond.
C29_TimerRemovesThatToastOnly ==
  /\ [](\A i, j \in DOMAIN toasts : toasts[i].id = toasts[j].id => i = j)
  /\ [][Len(toastTimers') < Len(toastTimers) => Len(toasts') >= Len(toasts) - 1]_vars

---------------------------------------------------------------------------
(* AuthProvider: getSession and the auth-state-change listener *)

\* C27: the delivery of an auth-state-change event sets the context's session
\* to the event's session; once an event has been delivered (loading is
\* false while the initial getSession is still pending, or getSession has
\* resolved) only the delivery of an event changes the context's session, so
\* the result of getSession does not replace the session of a delivered
\* event; user is null exactly when session is null.
C27_LastEventWins ==
  /\ [][/\ Len(authEvents') < Len(authEvents) => ctx'.session = Head(authEvents)
        /\ (~ctx.loading /\ getSessionPending /\ ctx'.session # ctx.session)
             => Len(authEvents') < Len(authEvents)]_vars
  /\ []((ctx.user = NullUser) <=> (ctx.session = NullSession))

---------------------------------------------------------------------------
(* The upload queue: object URLs and submissions *)

\* C24: the preview URL of every item in the upload queue is live (created
\* and not revoked), and a step revokes only URLs of items that are not in
\* the queue after the step.
C24_QueuedUrlsLive ==
  /\ [](page = "AdminAlbumEditorPage" => PreviewUrls(ed.files) \subseteq liveUrls)
  /\ [][(liveUrls \ liveUrls') \cap PreviewUrls(ed'.files) = {}]_vars

---------------------------------------------------------------------------
(* Photos rows and storage objects *)

\* C26: whenever no photo deletion, album deletion or upload is running, the
\* image_url of every photos row is the public URL of an object in the
\* gallery bucket.
C26_RowsHaveFiles ==
  (delPhoto = DelPhotoIdle /\ delProc = DelIdle /\ up = UpIdle)
    => \A p \in dbPhotos : \E key \in storage : getPublicUrl(key) = p.image_url

---------------------------------------------------------------------------
(* The public album page *)

\* C23: while the lightbox is mounted its index satisfies
\* 0 <= currentIndex < photos.length; for every length n >= 1 and index k
\* in range, goToNext from n - 1 gives 0, goToPrevious from 0 gives n - 1,
\* goToPrevious after goToNext gives k again, and n goToNext steps give k
\* again.
C23_LightboxIndex ==
  /\ [](LightboxMounted(gal) => gal.currentIndex \in 0..(Len(gal.photos) - 1))
  /\ \A n \in 1..(MaxIndex + 2) : \A k \in 0..(n - 1) :
       /\ goToNext(n - 1, n) = 0
       /\ goToPrevious(0, n) = n - 1
       /\ goToNext(k, n) \in 0..(n - 1) /\ goToPrevious(k, n) \in 0..(n - 1)
       /\ goToPrevious(goToNext(k, n), n) = k
       /\ goToNextTimes(n, k, n) = k

\* C28: whenever the public album page is not loading it shows "Album tidak
\* ditemukan" or the album and the photos of the albumId in the route; a
\* step that changes the album or the photos shown installs those of the
\* albumId in the route.
C28_ShowsRouteAlbum ==
  /\ []((page = "AlbumDetailPage" /\ ~gal.loading) =>
          \/ gal.album.id = NoAlbum
          \/ /\ gal.album.id = route.albumId
             /\ \A i \in DOMAIN gal.photos : gal.photos[i].album_id = route.albumId)
  /\ [][(page' = "AlbumDetailPage" /\ page = "AlbumDetailPage") =>
          /\ gal'.album # gal.album => gal'.album.id = route'.albumId
          /\ gal'.photos # gal.photos =>
               gal'.photos = SortById(PhotosOf(route'.albumId))]_vars


=============================================================================
